---- MODULE Spec2Model ----
(***************************************************************************)
(* tcpcount: the connection registry (ConnectionMonitor) of                *)
(* src/core/monitor.rs, with the entity types of src/core/connection.rs    *)
(* and src/core/process.rs.  One TLA+ action per registry operation:       *)
(* refresh() (successful and failed), reset().                             *)
(***************************************************************************)
EXTENDS Integers, Sequences, FiniteSets, TLC

(***************************************************************************)
(* Bounds of the model.                                                    *)
(***************************************************************************)
\* sockets get_sockets_info lists over the whole run, all refreshes together
MaxSockets == 3
\* last clock reading; every refresh reads a later clock than the one before
MaxTime == 3
\* retention specification: last clock reading, beyond the 1000 retained samples
MaxPolls == 1003
\* retention specification: the clock reading up to which the snapshot and
\* the outcome of refresh() vary; later refreshes succeed on one steady socket
EarlyTime == 1
\* lock specification: the graph samples once per second while its buffer
\* holds fewer points than this
MaxGraphSamples == 2
\* scroll specification: the rows the host table has beyond those
\* scroll_down takes for visible
MaxScroll == 1
\* popup specification: Char and Backspace key events the popup handles
\* over the run
MaxKeys == 2
\* graph specification: ticks of the run, more than the graph has points
MaxTicks == 303

(***************************************************************************)
(* Program constants.                                                      *)
(***************************************************************************)
\* monitor.rs:249 and monitor.rs:274: retention of the two bounded series
MaxSamples == 1000

(***************************************************************************)
(* Option<T>: None is the empty sequence, Some(x) the one-element one.     *)
(***************************************************************************)
None == << >>
Some(x) == << x >>
IsSome(o) == o # None
Unwrap(o) == o[1]

(***************************************************************************)
(* HashMap<K, usize>: a function whose domain is the set of present keys.  *)
(***************************************************************************)
EmptyMap == << >>
Get(m, k, default) == IF k \in DOMAIN m THEN m[k] ELSE default
Put(m, k, v) == [x \in (DOMAIN m) \cup {k} |-> IF x = k THEN v ELSE m[x]]
Range(f) == { f[x] : x \in DOMAIN f }

(***************************************************************************)
(* The snapshot source: what get_sockets_info, lookup_addr and the OS      *)
(* process table can answer.                                               *)
(***************************************************************************)
Pids == {10, 20}
PublicAddr == "93.184.216.34"
LoopbackAddr == "127.0.0.1"
Listen == "LISTEN"

\* One socket of get_sockets_info: associated_pids is a sequence (empty
\* when the OS names no owner); lookup is what lookup_addr(remote_addr)
\* answers for this entry, were it asked.
SocketInfo(pids, lport, addr, rport, st, lk) ==
    [associated_pids |-> pids, local_port |-> lport, remote_addr |-> addr,
     remote_port |-> rport, state |-> st, lookup |-> lk]

\* The sockets the snapshots are drawn from: two pids reaching the same
\* resolved host, one 4-tuple in two TCP states and with a failed lookup,
\* a loopback peer, a listening socket and a socket without owner.
SocketInfos ==
    { SocketInfo(<<10>>, 5000, PublicAddr, 443, "ESTABLISHED", Some("example.com")),
      SocketInfo(<<10>>, 5000, PublicAddr, 443, "TIME_WAIT", None),
      SocketInfo(<<20>>, 5000, PublicAddr, 443, "ESTABLISHED", Some("example.com")),
      SocketInfo(<<10>>, 5000, LoopbackAddr, 443, "ESTABLISHED", None),
      SocketInfo(<<10>>, 8080, "0.0.0.0", 0, Listen, None),
      SocketInfo(<< >>, 5000, PublicAddr, 443, "ESTABLISHED", None) }

RECURSIVE SeqsUpTo(_, _)
SeqsUpTo(S, n) ==
    IF n = 0 THEN { << >> }
    ELSE LET shorter == SeqsUpTo(S, n - 1)
         IN  shorter \cup { Append(s, e) : s \in { q \in shorter : Len(q) = n - 1 }, e \in S }

\* the socket lists get_sockets_info may answer once `read` sockets were listed
Snapshots(read) == SeqsUpTo(SocketInfos, MaxSockets - read)

\* One row of the OS process table (sysinfo::Process): name, exe, memory,
\* status.  A pid absent from the table maps to None.
ProcName(pid) == IF pid = 10 THEN "curl" ELSE "sshd"
ProcRow(pid, mem, status) ==
    Some([name |-> ProcName(pid), exe |-> IF pid = 10 THEN Some("/usr/bin/curl") ELSE None,
          memory |-> mem, status |-> status])
\* the process tables the registry specification draws from: pid 10 is
\* resolvable, pid 20 is not
ProcTables ==
    { [p \in Pids |-> IF p = 10 THEN ProcRow(p, 1, "Run") ELSE None] }

(***************************************************************************)
(* State.                                                                  *)
(***************************************************************************)
VARIABLES
    connections,             \* ConnectionMonitor.connections: id -> Connection
    historical_connections,  \* ConnectionMonitor.historical_connections
    processes,               \* ConnectionMonitor.processes: pid -> Process
    system_info,             \* ConnectionMonitor.system_info: the process table last read
    last_refresh,            \* ConnectionMonitor.last_refresh
    metrics,                 \* ConnectionMonitor.metrics
    clock,                   \* the last reading of SystemTime::now()
    lastOp,                  \* history: the operation that produced this state
    socketsRead,             \* history: sockets get_sockets_info has listed so far
    lastKeys,                \* history: the natural keys of the sockets the last refresh() processed
    closeCount,              \* history: id -> times the close block ran for it
    polled,                  \* history: the `now` of every refresh() that returned Ok since new() or reset()
    sampled,                 \* history: pid -> every memory sample taken for it since new() or reset()
    returned,                \* history: the last call of a read-only function, with what it returned
    poisoned,                \* the Mutex around the registry is poisoned
    guard,                   \* the holder of the MutexGuard, if any
    pending,                 \* the locals of a refresh() that has run its socket loop and not its close loop
    current_filter,          \* App.current_filter
    widget_filter,           \* widget -> the `filter` field of that widget
    filter_widget,           \* App.filter_widget, the filter popup
    history_data,            \* ActiveConnectionsGraphWidget.history_data
    frame,                   \* widget -> what its render() drew in the last draw, if anything
    running,                 \* App::run_loop is looping: no panic has unwound out of it
    scroll_offset,           \* table widget -> its `scroll_offset` field
    keysTyped                \* history: the Char and Backspace key events the popup handled

registry == <<connections, historical_connections, processes, system_info,
              last_refresh, metrics>>
vars == <<connections, historical_connections, processes, system_info,
          last_refresh, metrics, clock, lastOp, socketsRead, lastKeys, closeCount,
          polled, sampled, returned, poisoned, guard, pending, current_filter,
          widget_filter, filter_widget, history_data, frame, running, scroll_offset,
          keysTyped>>

\* what lies outside the registry and its history: the lock, the App and
\* its widgets
caller == <<returned, poisoned, guard, pending, current_filter, widget_filter,
            filter_widget, history_data, frame, running, scroll_offset, keysTyped>>

\* the fields of App and its widgets, without the value the last call returned
app == <<poisoned, guard, pending, current_filter, widget_filter, filter_widget,
         history_data, frame, running, scroll_offset, keysTyped>>
histories == <<socketsRead, lastKeys, closeCount, polled, sampled>>
\* what set_filter of the widgets writes: the filters and the scroll positions
filters == <<current_filter, widget_filter, scroll_offset>>
popup == <<filter_widget, keysTyped>>

EmptyMetrics ==
    [total_connections_by_pid |-> EmptyMap,
     max_concurrent_by_pid |-> EmptyMap,
     current_concurrent_by_pid |-> EmptyMap,
     total_connections_by_host |-> EmptyMap,
     max_concurrent_by_host |-> EmptyMap,
     current_concurrent_by_host |-> EmptyMap,
     total_connections_by_process_host |-> EmptyMap,
     max_concurrent_by_process_host |-> EmptyMap,
     current_concurrent_by_process_host |-> EmptyMap,
     memory_history |-> EmptyMap,
     sample_timestamps |-> << >>]

(***************************************************************************)
(* core/utils.rs, core/connection.rs, core/process.rs.                     *)
(***************************************************************************)
IsLoopbackOrLinkLocal(addr) == addr = LoopbackAddr

\* resolve_addr_to_hostname: loopback and link-local are never looked up
resolve_addr_to_hostname(addr, lookup) ==
    IF IsLoopbackOrLinkLocal(addr) THEN None ELSE lookup

\* the id rand::random() draws: a value no record of the registry carries
FreshId(conns) == 101 + Cardinality(DOMAIN conns)

ConnectionNew(id, pid, local_port, remote_port, remote_addr, remote_hostname, state, t) ==
    [id |-> id, pid |-> pid, local_port |-> local_port, remote_port |-> remote_port,
     remote_addr |-> remote_addr, remote_hostname |-> remote_hostname,
     state |-> state, first_seen |-> t, last_seen |-> t, closed |-> FALSE]

update_state(conn, state, t) == [conn EXCEPT !.state = state, !.last_seen = t]

mark_closed(conn, t) == [conn EXCEPT !.closed = TRUE, !.last_seen = t]

ProcessNew(pid, name, exe, memory_usage, t) ==
    [pid |-> pid, name |-> name, exe |-> exe,
     current_memory_usage |-> memory_usage, max_memory_usage |-> memory_usage,
     first_seen |-> t, last_seen |-> t]

\* Process::update overwriting the maximum with the new reading
ProcessUpdateMaxIsCurrent(proc, name, exe, memory_usage, t) ==
    [proc EXCEPT
        !.name = IF IsSome(name) THEN name ELSE @,
        !.exe = IF IsSome(exe) THEN exe ELSE @,
        !.current_memory_usage = memory_usage,
        !.max_memory_usage = memory_usage,
        !.last_seen = t]

\* Process::update, process.rs:32-42
ProcessUpdate(proc, name, exe, memory_usage, t) ==
    [proc EXCEPT
        !.name = IF IsSome(name) THEN name ELSE @,
        !.exe = IF IsSome(exe) THEN exe ELSE @,
        !.current_memory_usage = memory_usage,
        !.max_memory_usage = IF memory_usage > @ THEN memory_usage ELSE @,
        !.last_seen = t]

(***************************************************************************)
(* ConnectionMonitor::refresh, step by step.  The loop state st carries    *)
(* connections, processes, metrics and the seen_connections set.           *)
(***************************************************************************)
\* format!("{}:{}", hostname, port)
HostKey(hostname, port) == hostname \o ":" \o ToString(port)

\* (pid, hostname, port)
ProcessHostKey(pid, hostname, port) == <<pid, hostname, port>>

\* *map.entry(k).or_insert(0) += 1
Increment(m, k) == Put(m, k, Get(m, k, 0) + 1)

\* *map.entry(k).or_insert(1) -= 1
Decrement(m, k) == Put(m, k, Get(m, k, 1) - 1)

\* RaiseMax with the comparison inverted
RaiseMaxInverted(maxm, k, current) ==
    LET e == Get(maxm, k, 0) IN Put(maxm, k, IF current < e THEN current ELSE e)

\* let e = max.entry(k).or_insert(0); if current > *e { *e = current }
RaiseMax(maxm, k, current) ==
    LET e == Get(maxm, k, 0) IN Put(maxm, k, IF current > e THEN current ELSE e)

\* lines 124-132: listening sockets are dropped
current_socket_info(sockets) == SelectSeq(sockets, LAMBDA si : si.state # Listen)

\* conn_exists comparing the record's remote port with the socket's local port
conn_exists_swapped_port(conns, pid, si) ==
    { id \in DOMAIN conns :
        /\ conns[id].pid = pid
        /\ conns[id].local_port = si.local_port
        /\ conns[id].remote_addr = si.remote_addr
        /\ conns[id].remote_port = si.local_port }

\* lines 148-153: the ids of self.connections with the entry's natural key
conn_exists(conns, pid, si) ==
    { id \in DOMAIN conns :
        /\ conns[id].pid = pid
        /\ conns[id].local_port = si.local_port
        /\ conns[id].remote_addr = si.remote_addr
        /\ conns[id].remote_port = si.remote_port }

\* lines 177-184: the pid counters of a new connection
CountPid(m, pid) ==
    LET total == Increment(m.total_connections_by_pid, pid)
        current == Increment(m.current_concurrent_by_pid, pid)
    IN  [m EXCEPT !.total_connections_by_pid = total,
                  !.current_concurrent_by_pid = current,
                  !.max_concurrent_by_pid = RaiseMax(@, pid, current[pid])]

\* CountHost with remote_hostname.unwrap_or_default() in place of the
\* `if let Some`
CountHostUnwrapOrDefault(m, remote_hostname, remote_port) ==
    LET hostname == IF IsSome(remote_hostname) THEN Unwrap(remote_hostname) ELSE ""
        host_key == HostKey(hostname, remote_port)
        total == Increment(m.total_connections_by_host, host_key)
        current == Increment(m.current_concurrent_by_host, host_key)
    IN  [m EXCEPT !.total_connections_by_host = total,
                  !.current_concurrent_by_host = current,
                  !.max_concurrent_by_host = RaiseMax(@, host_key, current[host_key])]

\* CountHost leaving the current-concurrent counter of the host key alone
CountHostTotalOnly(m, remote_hostname, remote_port) ==
    IF IsSome(remote_hostname)
    THEN LET host_key == HostKey(Unwrap(remote_hostname), remote_port)
         IN  [m EXCEPT !.total_connections_by_host = Increment(@, host_key),
                       !.max_concurrent_by_host = RaiseMax(@, host_key, 0)]
    ELSE m

\* lines 186-197: the "host:port" counters of a new connection
CountHost(m, remote_hostname, remote_port) ==
    IF IsSome(remote_hostname)
    THEN LET host_key == HostKey(Unwrap(remote_hostname), remote_port)
             total == Increment(m.total_connections_by_host, host_key)
             current == Increment(m.current_concurrent_by_host, host_key)
         IN  [m EXCEPT !.total_connections_by_host = total,
                       !.current_concurrent_by_host = current,
                       !.max_concurrent_by_host = RaiseMax(@, host_key, current[host_key])]
    ELSE m

\* CountProcessHost without the increment of the cumulative total
CountProcessHostNoTotal(m, pid, remote_hostname, remote_port) ==
    IF IsSome(remote_hostname)
    THEN LET key == ProcessHostKey(pid, Unwrap(remote_hostname), remote_port)
             current == Increment(m.current_concurrent_by_process_host, key)
         IN  [m EXCEPT !.total_connections_by_process_host = Put(@, key, Get(@, key, 0)),
                       !.current_concurrent_by_process_host = current,
                       !.max_concurrent_by_process_host = RaiseMax(@, key, current[key])]
    ELSE m

\* lines 199-210: the (pid, host, port) counters of a new connection
CountProcessHost(m, pid, remote_hostname, remote_port) ==
    IF IsSome(remote_hostname)
    THEN LET key == ProcessHostKey(pid, Unwrap(remote_hostname), remote_port)
             total == Increment(m.total_connections_by_process_host, key)
             current == Increment(m.current_concurrent_by_process_host, key)
         IN  [m EXCEPT !.total_connections_by_process_host = total,
                       !.current_concurrent_by_process_host = current,
                       !.max_concurrent_by_process_host = RaiseMax(@, key, current[key])]
    ELSE m

\* push, then remove(0) once the series is longer than 1000
PushBounded(series, x) ==
    LET pushed == Append(series, x)
    IN  IF Len(pushed) > MaxSamples THEN Tail(pushed) ELSE pushed

\* update_process_info whose eviction drops the oldest sample of every
\* pid's series, not only of the series that grew past 1000
update_process_info_shared_eviction(st, pid, sys, t) ==
    IF IsSome(sys[pid])
    THEN LET proc == Unwrap(sys[pid])
             name == Some(proc.name)
             record == IF pid \in DOMAIN st.processes
                       THEN ProcessUpdate(st.processes[pid], name, proc.exe, proc.memory, t)
                       ELSE ProcessNew(pid, name, proc.exe, proc.memory, t)
             pushed == Put(st.metrics.memory_history, pid,
                           Append(Get(st.metrics.memory_history, pid, << >>),
                                  <<t, proc.memory>>))
         IN  [st EXCEPT
                !.processes = Put(@, pid, record),
                !.metrics.memory_history =
                    IF Len(pushed[pid]) > MaxSamples
                    THEN [p \in DOMAIN pushed |-> Tail(pushed[p])]
                    ELSE pushed]
    ELSE st

\* lines 257-278
update_process_info(st, pid, sys, t) ==
    IF IsSome(sys[pid])
    THEN LET proc == Unwrap(sys[pid])
             name == Some(proc.name)
             record == IF pid \in DOMAIN st.processes
                       THEN ProcessUpdate(st.processes[pid], name, proc.exe, proc.memory, t)
                       ELSE ProcessNew(pid, name, proc.exe, proc.memory, t)
             history == Get(st.metrics.memory_history, pid, << >>)
         IN  [st EXCEPT
                !.processes = Put(@, pid, record),
                !.metrics.memory_history = Put(@, pid, PushBounded(history, <<t, proc.memory>>))]
    ELSE st

\* SeenAgain counting the matched entry for its pid as a creation does
SeenAgainCounted(st, conn_id, si, t) ==
    [st EXCEPT !.seen = @ \cup {conn_id},
               !.connections[conn_id] = update_state(@, si.state, t),
               !.metrics = CountPid(@, st.connections[conn_id].pid)]

\* lines 155-163: the entry matches a record of self.connections
SeenAgain(st, conn_id, si, t) ==
    [st EXCEPT !.seen = @ \cup {conn_id},
               !.connections[conn_id] = update_state(@, si.state, t)]

\* lines 164-211: no record matches, a connection is created and counted
CreateConnection(st, pid, si, remote_hostname, t) ==
    LET new_conn == ConnectionNew(FreshId(st.connections), pid, si.local_port,
                                  si.remote_port, si.remote_addr, remote_hostname,
                                  si.state, t)
    IN  [st EXCEPT
            !.seen = @ \cup {new_conn.id},
            !.connections = Put(@, new_conn.id, new_conn),
            !.metrics = CountProcessHost(
                            CountHost(CountPid(@, pid), remote_hostname, si.remote_port),
                            pid, remote_hostname, si.remote_port)]

\* lines 140-216: one socket of the loop.  HashMap::find returns the first
\* match in iteration order; NaturalKeyAtMostOnce shows there is never more
\* than one.
ProcessSocket(st, si, sys, t) ==
    IF si.associated_pids = << >>
    THEN st
    ELSE LET pid == si.associated_pids[1]
             remote_hostname == resolve_addr_to_hostname(si.remote_addr, si.lookup)
             found == conn_exists(st.connections, pid, si)
             matched == IF found # {}
                        THEN SeenAgain(st, CHOOSE id \in found : TRUE, si, t)
                        ELSE CreateConnection(st, pid, si, remote_hostname, t)
         IN  update_process_info(matched, pid, sys, t)

RECURSIVE ProcessSockets(_, _, _, _)
ProcessSockets(st, sockets, sys, t) ==
    IF sockets = << >> THEN st
    ELSE ProcessSockets(ProcessSocket(st, Head(sockets), sys, t), Tail(sockets), sys, t)

\* the natural key of a connection or of a socket with its owner
NaturalKey(pid, x) == <<pid, x.local_port, x.remote_addr, x.remote_port>>

\* the natural keys lines 139-217 process, in order: sockets with an owner,
\* not listening
RECURSIVE SnapshotKeys(_)
SnapshotKeys(sockets) ==
    IF sockets = << >> THEN << >>
    ELSE LET si == Head(sockets)
         IN  IF si.state # Listen /\ si.associated_pids # << >>
             THEN <<NaturalKey(si.associated_pids[1], si)>> \o SnapshotKeys(Tail(sockets))
             ELSE SnapshotKeys(Tail(sockets))

\* to_close without the `!conn.closed` test
to_close_unfiltered(conns, seen) == { id \in DOMAIN conns : id \notin seen }

\* lines 219-222
to_close(conns, seen) ==
    { id \in DOMAIN conns : id \notin seen /\ ~conns[id].closed }

\* CountClose without the decrement of the pid counter
CountCloseHostOnly(m, conn) ==
    IF IsSome(conn.remote_hostname)
    THEN LET hostname == Unwrap(conn.remote_hostname)
         IN  [m EXCEPT
                !.current_concurrent_by_host =
                    Decrement(@, HostKey(hostname, conn.remote_port)),
                !.current_concurrent_by_process_host =
                    Decrement(@, ProcessHostKey(conn.pid, hostname, conn.remote_port))]
    ELSE m

\* CountClose decrementing max_concurrent_by_pid in place of
\* current_concurrent_by_pid
CountCloseDecrementsMax(m, conn) ==
    [m EXCEPT !.max_concurrent_by_pid = Decrement(@, conn.pid)]

\* CountClose without the decrements of the host key and of the
\* (pid, host, port) key
CountClosePidOnly(m, conn) ==
    [m EXCEPT !.current_concurrent_by_pid = Decrement(@, conn.pid)]

\* CountClose taking the connection off the cumulative total of its pid too
CountCloseDecrementsTotal(m, conn) ==
    LET pidDone == [m EXCEPT !.current_concurrent_by_pid = Decrement(@, conn.pid),
                             !.total_connections_by_pid = Decrement(@, conn.pid)]
    IN  IF IsSome(conn.remote_hostname)
        THEN LET hostname == Unwrap(conn.remote_hostname)
             IN  [pidDone EXCEPT
                    !.current_concurrent_by_host =
                        Decrement(@, HostKey(hostname, conn.remote_port)),
                    !.current_concurrent_by_process_host =
                        Decrement(@, ProcessHostKey(conn.pid, hostname, conn.remote_port))]
        ELSE pidDone

\* lines 228-237: the decrements of one close
CountClose(m, conn) ==
    LET pidDone == [m EXCEPT !.current_concurrent_by_pid = Decrement(@, conn.pid)]
    IN  IF IsSome(conn.remote_hostname)
        THEN LET hostname == Unwrap(conn.remote_hostname)
             IN  [pidDone EXCEPT
                    !.current_concurrent_by_host =
                        Decrement(@, HostKey(hostname, conn.remote_port)),
                    !.current_concurrent_by_process_host =
                        Decrement(@, ProcessHostKey(conn.pid, hostname, conn.remote_port))]
        ELSE pidDone

\* lines 225-242: one connection of the close loop
CloseConnection(st, conn_id, t) ==
    IF conn_id \in DOMAIN st.connections
    THEN LET conn == mark_closed(st.connections[conn_id], t)
         IN  [st EXCEPT
                !.connections[conn_id] = conn,
                !.metrics = CountClose(@, conn),
                !.historical_connections = Append(@, conn),
                !.closeCount = Put(@, conn_id, Get(@, conn_id, 0) + 1)]
    ELSE st

RECURSIVE CloseConnections(_, _, _)
CloseConnections(st, order, t) ==
    IF order = << >> THEN st
    ELSE CloseConnections(CloseConnection(st, Head(order), t), Tail(order), t)

\* the orders in which the HashMap iteration may list a set of ids
Orders(S) ==
    { o \in [1..Cardinality(S) -> S] : \A i, j \in DOMAIN o : i # j => o[i] # o[j] }

\* RecordPoll without the eviction
RecordPollUnbounded(m, now) == [m EXCEPT !.sample_timestamps = Append(@, now)]

\* lines 245-251
RecordPoll(m, now) == [m EXCEPT !.sample_timestamps = PushBounded(@, now)]

\* the loop state a refresh starts from
LoopState(conns, hist, procs, m, cc) ==
    [connections |-> conns, historical_connections |-> hist, processes |-> procs,
     metrics |-> m, closeCount |-> cc, seen |-> {}]

\* lines 134-217 on the filtered socket list
AfterSockets(st, sockets, sys, t) ==
    ProcessSockets(st, current_socket_info(sockets), sys, t)

\* lines 219-253
AfterClose(st, order, now, t) ==
    LET closed == CloseConnections(st, order, t)
    IN  [closed EXCEPT !.metrics = RecordPoll(@, now)]

(***************************************************************************)
(* core/filters.rs.  Strings are TLA+ strings; an address is held in the   *)
(* textual form IpAddr::to_string gives it.                                *)
(***************************************************************************)
\* str::contains: some window of s equals sub (the empty sub is in every s)
Contains(s, sub) ==
    \E i \in 0..(Len(s) - Len(sub)) : SubSeq(s, i + 1, i + Len(sub)) = sub

ConnectionFilter(pid, process_name, remote_host, remote_port) ==
    [pid |-> pid, process_name |-> process_name,
     remote_host |-> remote_host, remote_port |-> remote_port]

\* ConnectionFilter::default()
ConnectionFilterDefault == ConnectionFilter(None, None, None, None)

\* matches_connection skipping the process-name criterion whenever the pid
\* criterion is set
matches_connection_pid_shadows_name(filter, conn, process_name) ==
    /\ ~(IsSome(filter.pid) /\ conn.pid # Unwrap(filter.pid))
    /\ ~(/\ ~IsSome(filter.pid)
          /\ IsSome(filter.process_name)
          /\ IF IsSome(process_name)
             THEN ~Contains(Unwrap(process_name), Unwrap(filter.process_name))
             ELSE TRUE)
    /\ ~(/\ IsSome(filter.remote_host)
          /\ IF IsSome(conn.remote_hostname)
             THEN /\ ~Contains(Unwrap(conn.remote_hostname), Unwrap(filter.remote_host))
                  /\ ~Contains(conn.remote_addr, Unwrap(filter.remote_host))
             ELSE ~Contains(conn.remote_addr, Unwrap(filter.remote_host)))
    /\ ~(IsSome(filter.remote_port) /\ conn.remote_port # Unwrap(filter.remote_port))

\* matches_connection letting a connection without process name pass the
\* name criterion
matches_connection_nameless_passes(filter, conn, process_name) ==
    /\ ~(IsSome(filter.pid) /\ conn.pid # Unwrap(filter.pid))
    /\ ~(/\ IsSome(filter.process_name)
          /\ IF IsSome(process_name)
             THEN ~Contains(Unwrap(process_name), Unwrap(filter.process_name))
             ELSE FALSE)
    /\ ~(/\ IsSome(filter.remote_host)
          /\ IF IsSome(conn.remote_hostname)
             THEN /\ ~Contains(Unwrap(conn.remote_hostname), Unwrap(filter.remote_host))
                  /\ ~Contains(conn.remote_addr, Unwrap(filter.remote_host))
             ELSE ~Contains(conn.remote_addr, Unwrap(filter.remote_host)))
    /\ ~(IsSome(filter.remote_port) /\ conn.remote_port # Unwrap(filter.remote_port))

\* matches_connection never falling back to the address text when a
\* hostname is resolved
matches_connection_host_no_fallback(filter, conn, process_name) ==
    /\ ~(IsSome(filter.pid) /\ conn.pid # Unwrap(filter.pid))
    /\ ~(/\ IsSome(filter.process_name)
          /\ IF IsSome(process_name)
             THEN ~Contains(Unwrap(process_name), Unwrap(filter.process_name))
             ELSE TRUE)
    /\ ~(/\ IsSome(filter.remote_host)
          /\ IF IsSome(conn.remote_hostname)
             THEN ~Contains(Unwrap(conn.remote_hostname), Unwrap(filter.remote_host))
             ELSE ~Contains(conn.remote_addr, Unwrap(filter.remote_host)))
    /\ ~(IsSome(filter.remote_port) /\ conn.remote_port # Unwrap(filter.remote_port))

\* lines 70-113: each `return false` is one conjunct that must not fire
matches_connection(filter, conn, process_name) ==
    /\ ~(IsSome(filter.pid) /\ conn.pid # Unwrap(filter.pid))
    /\ ~(/\ IsSome(filter.process_name)
          /\ IF IsSome(process_name)
             THEN ~Contains(Unwrap(process_name), Unwrap(filter.process_name))
             ELSE TRUE)
    /\ ~(/\ IsSome(filter.remote_host)
          /\ IF IsSome(conn.remote_hostname)
             THEN /\ ~Contains(Unwrap(conn.remote_hostname), Unwrap(filter.remote_host))
                  /\ ~Contains(conn.remote_addr, Unwrap(filter.remote_host))
             ELSE ~Contains(conn.remote_addr, Unwrap(filter.remote_host)))
    /\ ~(IsSome(filter.remote_port) /\ conn.remote_port # Unwrap(filter.remote_port))

(***************************************************************************)
(* The views of core/monitor.rs, lines 286-590.  Each reads the registry   *)
(* as it is.  A view that collects its rows from a HashMap of its own      *)
(* returns them in the iteration order of that map: the operator gives the *)
(* set of rows, Orders(..) of it the vectors the call may return.          *)
(***************************************************************************)
\* self.get_process(conn.pid).and_then(|p| p.name.as_deref())
process_name_of(pid) == IF pid \in DOMAIN processes THEN processes[pid].name ELSE None

\* the filter test every view applies to a record
Matches(filter, conn) == matches_connection(filter, conn, process_name_of(conn.pid))

\* self.connections.values().chain(self.historical_connections.iter()): the
\* records scanned are those of the map and those of the list, each entry of
\* either being one element; CountAll counts the elements satisfying P
CountAll(P(_)) ==
    Cardinality({ id \in DOMAIN connections : P(connections[id]) })
    + Cardinality({ i \in DOMAIN historical_connections : P(historical_connections[i]) })
AllRecords == Range(connections) \cup Range(historical_connections)

\* conn.remote_hostname.clone().unwrap_or_else(|| conn.remote_addr.to_string())
HostOf(conn) ==
    IF IsSome(conn.remote_hostname) THEN Unwrap(conn.remote_hostname) ELSE conn.remote_addr

\* lines 582-590
get_active_pids ==
    { pid \in DOMAIN system_info :
        /\ IsSome(system_info[pid])
        /\ Unwrap(system_info[pid]).status \notin {"Dead", "Zombie", "Stop"} }

\* lines 286-295 and 301-309, as the number of records returned
get_filtered_active_connections_len(filter) ==
    Cardinality({ id \in DOMAIN connections :
                    ~connections[id].closed /\ Matches(filter, connections[id]) })
get_filtered_historical_connections_len(filter) ==
    Cardinality({ i \in DOMAIN historical_connections :
                    Matches(filter, historical_connections[i]) })

\* lines 443-484
get_host_metrics(filter) ==
    LET InGroup(c, key) == Matches(filter, c) /\ <<HostOf(c), c.remote_port>> = key
        keys == { <<HostOf(c), c.remote_port>> : c \in { r \in AllRecords : Matches(filter, r) } }
    IN  { [host |-> key[1], port |-> key[2],
           current_connections |-> CountAll(LAMBDA c : InGroup(c, key) /\ ~c.closed),
           total_connections |-> CountAll(LAMBDA c : InGroup(c, key)),
           max_concurrent |-> Get(metrics.max_concurrent_by_host, HostKey(key[1], key[2]), 0)]
          : key \in keys }

\* lines 486-528
get_process_metrics(filter) ==
    LET InGroup(c, pid) == Matches(filter, c) /\ c.pid = pid
        keys == { c.pid : c \in { r \in AllRecords : Matches(filter, r) } }
    IN  { [pid |-> pid,
           name |-> IF IsSome(process_name_of(pid)) THEN Unwrap(process_name_of(pid))
                    ELSE "Unknown",
           current_connections |-> CountAll(LAMBDA c : InGroup(c, pid) /\ ~c.closed),
           total_connections |-> CountAll(LAMBDA c : InGroup(c, pid)),
           max_concurrent |-> Get(metrics.max_concurrent_by_pid, pid, 0),
           is_alive |-> pid \in get_active_pids]
          : pid \in keys }

\* lines 530-580
get_process_host_metrics(filter) ==
    LET InGroup(c, key) ==
            Matches(filter, c) /\ <<c.pid, HostOf(c), c.remote_port>> = key
        keys == { <<c.pid, HostOf(c), c.remote_port>> :
                    c \in { r \in AllRecords : Matches(filter, r) } }
        display(pid) ==
            IF pid \in DOMAIN processes
            THEN IF IsSome(processes[pid].exe) THEN Unwrap(processes[pid].exe)
                 ELSE IF IsSome(processes[pid].name) THEN Unwrap(processes[pid].name)
                 ELSE "Unknown"
            ELSE "Unknown"
    IN  { [pid |-> key[1], process_name |-> display(key[1]),
           host |-> key[2], port |-> key[3],
           current_connections |-> CountAll(LAMBDA c : InGroup(c, key) /\ ~c.closed),
           total_connections |-> CountAll(LAMBDA c : InGroup(c, key)),
           max_concurrent |->
               Get(metrics.max_concurrent_by_process_host,
                   ProcessHostKey(key[1], key[2], key[3]), 0),
           is_alive |-> key[1] \in get_active_pids]
          : key \in keys }

\* the test of lines 369-370 and 376
WasActive(conn, timestamp) ==
    conn.first_seen <= timestamp /\ (timestamp <= conn.last_seen \/ ~conn.closed)

\* InWindow without its upper bound
InWindowOpenEnd(time, start_time, end_time) ==
    ~(IsSome(start_time) /\ time < Unwrap(start_time))

\* the test of lines 357-367: start_time and end_time are Options
InWindow(time, start_time, end_time) ==
    /\ ~(IsSome(start_time) /\ time < Unwrap(start_time))
    /\ ~(IsSome(end_time) /\ time > Unwrap(end_time))

\* lines 343-386
get_connection_history_filtered(filter, start_time, end_time) ==
    LET kept == SelectSeq(metrics.sample_timestamps,
                          LAMBDA ts : InWindow(ts, start_time, end_time))
    IN  [i \in 1..Len(kept) |->
            <<kept[i], CountAll(LAMBDA c : WasActive(c, kept[i]) /\ Matches(filter, c))>>]

\* get_memory_history_filtered inserting a pid's windowed series even when
\* it is empty
get_memory_history_filtered_keeps_empty(filter, start_time, end_time) ==
    LET pids_to_include ==
            IF IsSome(filter.pid) THEN { Unwrap(filter.pid) }
            ELSE IF IsSome(filter.process_name)
            THEN { pid \in DOMAIN processes :
                     /\ IsSome(processes[pid].name)
                     /\ Contains(Unwrap(processes[pid].name), Unwrap(filter.process_name)) }
            ELSE DOMAIN metrics.memory_history
        windowed(pid) ==
            SelectSeq(metrics.memory_history[pid],
                      LAMBDA sample : InWindow(sample[1], start_time, end_time))
    IN  [pid \in pids_to_include \cap DOMAIN metrics.memory_history |-> windowed(pid)]

\* lines 388-441: the result is a HashMap, pid -> windowed series
get_memory_history_filtered(filter, start_time, end_time) ==
    LET pids_to_include ==
            IF IsSome(filter.pid) THEN { Unwrap(filter.pid) }
            ELSE IF IsSome(filter.process_name)
            THEN { pid \in DOMAIN processes :
                     /\ IsSome(processes[pid].name)
                     /\ Contains(Unwrap(processes[pid].name), Unwrap(filter.process_name)) }
            ELSE DOMAIN metrics.memory_history
        windowed(pid) ==
            SelectSeq(metrics.memory_history[pid],
                      LAMBDA sample : InWindow(sample[1], start_time, end_time))
    IN  [pid \in { q \in pids_to_include \cap DOMAIN metrics.memory_history :
                     windowed(q) # << >> } |-> windowed(pid)]

\* the memory samples one refresh takes, in order: one per socket that is
\* not listening, has an owner, and whose owner the process table knows
RECURSIVE SamplesTaken(_, _, _, _)
SamplesTaken(taken, sockets, sys, t) ==
    IF sockets = << >> THEN taken
    ELSE LET si == Head(sockets)
             pid == si.associated_pids[1]
             counted == si.state # Listen /\ si.associated_pids # << >> /\ IsSome(sys[pid])
         IN  SamplesTaken(IF counted
                          THEN Put(taken, pid, Append(Get(taken, pid, << >>),
                                                      <<t, Unwrap(sys[pid]).memory>>))
                          ELSE taken,
                          Tail(sockets), sys, t)

(***************************************************************************)
(* app.rs and widgets/: the App, the filter popup and the widgets that     *)
(* read the registry.  widgets/process_host_table.rs is not part of the    *)
(* sources: of that widget only the filter App::apply_filter hands it is   *)
(* kept, its render() is left out.                                         *)
(***************************************************************************)
Widgets == {"host_table", "process_host_table", "process_table", "summary", "graph"}

\* the widgets whose render() locks the registry and reads a view
Renderers == {"host_table", "process_table", "summary"}

\* the widgets with a scroll_offset, rendered as a slice of their rows
Tables == {"host_table", "process_table"}

\* `let visible_rows = 15; // Approximate`
VisibleRows == 15

\* with_max_points(300)
GraphMaxPoints == 300

\* Result<T, String>
Ok(x) == [ok |-> TRUE, value |-> x]
Err(msg) == [ok |-> FALSE, error |-> msg]

\* the largest values of u32 and of u16, in decimal digits
U32Max == "4294967295"
U16Max == "65535"

IsDigit(c) == \E d \in 0..9 : ToString(d) = c
DigitValue(c) == CHOOSE d \in 0..9 : ToString(d) = c

RECURSIVE AllDigits(_)
AllDigits(s) == s = "" \/ (IsDigit(Head(s)) /\ AllDigits(Tail(s)))

RECURSIVE StripZeros(_)
StripZeros(s) == IF s # "" /\ Head(s) = "0" THEN StripZeros(Tail(s)) ELSE s

\* of two digit strings of one length, a denotes the larger number
RECURSIVE DigitsGreater(_, _)
DigitsGreater(a, b) ==
    IF a = "" THEN FALSE
    ELSE IF Head(a) # Head(b) THEN DigitValue(Head(a)) > DigitValue(Head(b))
    ELSE DigitsGreater(Tail(a), Tail(b))

RECURSIVE DigitsValue(_, _)
DigitsValue(s, acc) ==
    IF s = "" THEN acc ELSE DigitsValue(Tail(s), acc * 10 + DigitValue(Head(s)))

\* str::parse::<u32>() and str::parse::<u16>(): an optional "+", then one
\* decimal digit at least and nothing else, the value within the type
parse_unsigned(s, max_digits) ==
    LET digits == IF s # "" /\ Head(s) = "+" THEN Tail(s) ELSE s
        significant == StripZeros(digits)
    IN  IF digits = "" \/ ~AllDigits(digits)
        THEN Err("invalid digit found in string")
        ELSE IF \/ Len(significant) > Len(max_digits)
                \/ /\ Len(significant) = Len(max_digits)
                   /\ DigitsGreater(significant, max_digits)
        THEN Err("number too large to fit in target type")
        ELSE Ok(DigitsValue(digits, 0))

\* FilterWidget::new
FilterWidgetNew ==
    [current_field |-> "Pid", pid_input |-> "", process_name_input |-> "",
     remote_host_input |-> "", remote_port_input |-> "", active |-> FALSE,
     error |-> None]

\* FilterField::next and FilterField::prev
FieldNext(field) ==
    CASE field = "Pid" -> "ProcessName"
      [] field = "ProcessName" -> "RemoteHost"
      [] field = "RemoteHost" -> "RemotePort"
      [] field = "RemotePort" -> "Pid"
FieldPrev(field) ==
    CASE field = "Pid" -> "RemotePort"
      [] field = "ProcessName" -> "Pid"
      [] field = "RemoteHost" -> "ProcessName"
      [] field = "RemotePort" -> "RemoteHost"

\* the input buffer a Char or Backspace key edits
InputOf(field) ==
    CASE field = "Pid" -> "pid_input"
      [] field = "ProcessName" -> "process_name_input"
      [] field = "RemoteHost" -> "remote_host_input"
      [] field = "RemotePort" -> "remote_port_input"

\* FilterWidget::show, lines 72-101
show(fw, filter) ==
    [fw EXCEPT
        !.active = TRUE,
        !.error = None,
        !.pid_input = IF IsSome(filter.pid) THEN ToString(Unwrap(filter.pid)) ELSE "",
        !.process_name_input =
            IF IsSome(filter.process_name) THEN Unwrap(filter.process_name) ELSE "",
        !.remote_host_input =
            IF IsSome(filter.remote_host) THEN Unwrap(filter.remote_host) ELSE "",
        !.remote_port_input =
            IF IsSome(filter.remote_port) THEN ToString(Unwrap(filter.remote_port)) ELSE "",
        !.current_field = "Pid"]

\* FilterWidget::hide
hide(fw) == [fw EXCEPT !.active = FALSE]

\* build_filter taking a port that does not parse for no port at all
build_filter_port_unchecked(fw) ==
    LET pid == parse_unsigned(fw.pid_input, U32Max)
        port == parse_unsigned(fw.remote_port_input, U16Max)
        text(input) == IF input # "" THEN Some(input) ELSE None
    IN  IF fw.pid_input # "" /\ ~pid.ok
        THEN Err("Invalid PID: " \o fw.pid_input)
        ELSE Ok(ConnectionFilter(IF fw.pid_input # "" THEN Some(pid.value) ELSE None,
                                 text(fw.process_name_input),
                                 text(fw.remote_host_input),
                                 IF fw.remote_port_input # "" /\ port.ok
                                 THEN Some(port.value) ELSE None))

\* FilterWidget::build_filter, lines 167-193
build_filter(fw) ==
    LET pid == parse_unsigned(fw.pid_input, U32Max)
        port == parse_unsigned(fw.remote_port_input, U16Max)
        text(input) == IF input # "" THEN Some(input) ELSE None
    IN  IF fw.pid_input # "" /\ ~pid.ok
        THEN Err("Invalid PID: " \o fw.pid_input)
        ELSE IF fw.remote_port_input # "" /\ ~port.ok
        THEN Err("Invalid port: " \o fw.remote_port_input)
        ELSE Ok(ConnectionFilter(IF fw.pid_input # "" THEN Some(pid.value) ELSE None,
                                 text(fw.process_name_input),
                                 text(fw.remote_host_input),
                                 IF fw.remote_port_input # "" THEN Some(port.value)
                                 ELSE None))

\* the first n points of the graph's buffer
FirstPoints(data, n) ==
    IF Len(data) > n THEN SubSeq(data, 1, n) ELSE data

\* the last n points of the graph's buffer
LastPoints(data, n) ==
    IF Len(data) > n THEN SubSeq(data, Len(data) - n + 1, Len(data)) ELSE data

\* rebuild_history_data pushing the counts of the view behind the buffer
\* it finds
rebuild_history_data_appending(data, filter) ==
    IF poisoned THEN data
    ELSE LET history == get_connection_history_filtered(filter, None, None)
         IN  LastPoints(data \o [i \in 1..Len(history) |-> history[i][2]], GraphMaxPoints)

\* ActiveConnectionsGraphWidget::rebuild_history_data, lines 79-96: the
\* buffer is left as it was when the lock is poisoned
rebuild_history_data(data, filter) ==
    IF poisoned THEN data
    ELSE LET history == get_connection_history_filtered(filter, None, None)
         IN  LastPoints([i \in 1..Len(history) |-> history[i][2]], GraphMaxPoints)

\* SummaryWidget::render, lines 38-44: the three numbers it prints
SummaryOf(filter) ==
    LET history == get_connection_history_filtered(filter, None, None)
        counts == { history[i][2] : i \in DOMAIN history }
        current == get_filtered_active_connections_len(filter)
    IN  [active |-> current,
         total |-> get_filtered_historical_connections_len(filter) + current,
         max |-> IF counts = {} THEN 0 ELSE CHOOSE m \in counts : \A c \in counts : c <= m]

\* render() of a widget of Renderers: nothing is drawn when lock() fails
\* (host_table.rs:61-64, process_table.rs:61-64, summary_block.rs:33-36)
Render(widget) ==
    IF poisoned THEN None
    ELSE CASE widget = "host_table" -> Some(get_host_metrics(widget_filter[widget]))
           [] widget = "process_table" -> Some(get_process_metrics(widget_filter[widget]))
           [] widget = "summary" -> Some(SummaryOf(widget_filter[widget]))

\* the rows render() of a table widget gets from its view
RowsOf(table) ==
    IF table = "host_table" THEN get_host_metrics(widget_filter[table])
    ELSE get_process_metrics(widget_filter[table])

\* render() of a table slices its rows as
\* [scroll_offset .. min(scroll_offset + visible_rows, total_rows)]
\* (host_table.rs:83-89, process_table.rs:83-89); the slice expression
\* panics when its start lies beyond its end, that is beyond total_rows
SlicePanics(table) ==
    ~poisoned /\ scroll_offset[table] > Cardinality(RowsOf(table))

\* App::new().with_filter(initial_filter), lines 65-91, on the registry as
\* it is: nothing drawn yet, the popup closed, the graph's buffer as `data`
AppNew(initial_filter, data) ==
    /\ poisoned = FALSE
    /\ guard = None
    /\ pending = None
    /\ current_filter = initial_filter
    /\ widget_filter = [w \in Widgets |-> initial_filter]
    /\ filter_widget = FilterWidgetNew
    /\ history_data = data
    /\ frame = [w \in Renderers |-> None]
    /\ running = TRUE
    /\ scroll_offset = [w \in Tables |-> 0]
    /\ keysTyped = 0

\* the registry specifications leave the App where App::new put it, before
\* with_filter
CallerInit == returned = None /\ AppNew(ConnectionFilterDefault, << >>)

(***************************************************************************)
(* Actions.                                                                *)
(***************************************************************************)
\* ConnectionMonitor::new, lines 71-90, when its refresh() at line 92 succeeds
NewWith(sockets) ==
    LET mid == AfterSockets(LoopState(EmptyMap, << >>, EmptyMap, EmptyMetrics, EmptyMap),
                            sockets, system_info, clock)
        fin == AfterClose(mid, << >>, 0, clock)
    IN  /\ connections = fin.connections
        /\ historical_connections = fin.historical_connections
        /\ processes = fin.processes
        /\ metrics = fin.metrics
        /\ closeCount = fin.closeCount
        /\ lastKeys = SnapshotKeys(sockets)
        /\ socketsRead = Len(sockets)
        /\ polled = <<0>>
        /\ sampled = SamplesTaken(EmptyMap, sockets, system_info, clock)

\* ConnectionMonitor::new on the inputs of the registry specification
NewRefreshed ==
    /\ clock \in {0, 1}
    /\ lastOp = "refresh"
    /\ \E sockets \in Snapshots(0) : NewWith(sockets)

\* ConnectionMonitor::new when its refresh() fails: `.ok()` drops the error
NewRefreshFailed ==
    /\ clock = 0
    /\ lastOp = "refresh_err"
    /\ connections = EmptyMap
    /\ historical_connections = << >>
    /\ processes = EmptyMap
    /\ metrics = EmptyMetrics
    /\ closeCount = EmptyMap
    /\ lastKeys = << >>
    /\ socketsRead = 0
    /\ polled = << >>
    /\ sampled = EmptyMap

\* the registry ConnectionMonitor::new returns
Init ==
    /\ system_info \in ProcTables
    /\ last_refresh = 0
    /\ (NewRefreshed \/ NewRefreshFailed)
    /\ CallerInit

\* refresh() returning Ok: get_sockets_info answered `sockets`, the process
\* table read `sys`; `now` is the reading of line 118 and t the reading of
\* the later SystemTime::now() calls of the same refresh.
RefreshWith(sockets, sys, t) ==
    LET now == clock + 1
        mid == AfterSockets(LoopState(connections, historical_connections,
                                      processes, metrics, closeCount),
                            sockets, sys, t)
    IN  \E order \in Orders(to_close(mid.connections, mid.seen)) :
            LET fin == AfterClose(mid, order, now, t)
            IN  /\ connections' = fin.connections
                /\ historical_connections' = fin.historical_connections
                /\ processes' = fin.processes
                /\ metrics' = fin.metrics
                /\ closeCount' = fin.closeCount
                /\ system_info' = sys
                /\ last_refresh' = now
                /\ clock' = t
                /\ lastKeys' = SnapshotKeys(sockets)
                /\ socketsRead' = socketsRead + Len(sockets)
                /\ lastOp' = "refresh"
                /\ polled' = Append(polled, now)
                /\ sampled' = SamplesTaken(sampled, sockets, sys, t)
                /\ UNCHANGED caller

\* refresh() returning Ok, on the inputs of the registry specification
Refresh ==
    /\ clock < MaxTime
    /\ \E sockets \in Snapshots(socketsRead), sys \in ProcTables,
          t \in {clock + 1, clock + 2} \cap (0..MaxTime) :
        RefreshWith(sockets, sys, t)

\* a refresh() that records the poll timestamp before it fails
RefreshFailAfterPoll ==
    /\ clock < MaxTime
    /\ clock' = clock + 1
    /\ lastOp' = "refresh_err"
    /\ metrics' = RecordPoll(metrics, clock + 1)
    /\ UNCHANGED <<connections, historical_connections, processes, system_info,
                   last_refresh, socketsRead, lastKeys, closeCount, polled, sampled>>
    /\ UNCHANGED caller

\* refresh() returning Err: get_sockets_info failed at line 122
RefreshFail ==
    /\ clock < MaxTime
    /\ clock' = clock + 1
    /\ lastOp' = "refresh_err"
    /\ UNCHANGED <<connections, historical_connections, processes, system_info,
                   last_refresh, metrics, socketsRead, lastKeys, closeCount,
                   polled, sampled>>
    /\ UNCHANGED caller

\* reset() leaving self.connections as it is
ResetKeepsConnections ==
    /\ lastOp # "reset"
    /\ historical_connections' = << >>
    /\ metrics' = EmptyMetrics
    /\ processes' = EmptyMap
    /\ last_refresh' = clock
    /\ closeCount' = EmptyMap
    /\ polled' = << >>
    /\ sampled' = EmptyMap
    /\ lastOp' = "reset"
    /\ UNCHANGED <<connections, system_info, clock, socketsRead, lastKeys>>
    /\ UNCHANGED caller

\* reset()
Reset ==
    /\ lastOp # "reset"
    /\ connections' = EmptyMap
    /\ historical_connections' = << >>
    /\ metrics' = EmptyMetrics
    /\ processes' = EmptyMap
    /\ last_refresh' = clock
    /\ closeCount' = EmptyMap
    /\ polled' = << >>
    /\ sampled' = EmptyMap
    /\ lastOp' = "reset"
    /\ UNCHANGED <<system_info, clock, socketsRead, lastKeys>>
    /\ UNCHANGED caller

Next == Refresh \/ RefreshFail \/ Reset

Spec == Init /\ [][Next]_vars

(***************************************************************************)
(* The retention specification: the registry under more than 1000          *)
(* refreshes.  Up to EarlyTime the snapshot lists one socket of pid 10,    *)
(* with or without one of pid 20, and refresh() may fail; afterwards every *)
(* refresh succeeds on the socket of pid 10 alone.  Both pids are in the   *)
(* process table.                                                          *)
(***************************************************************************)
Socket10 == SocketInfo(<<10>>, 5000, PublicAddr, 443, "ESTABLISHED", Some("example.com"))
Socket20 == SocketInfo(<<20>>, 5000, PublicAddr, 443, "ESTABLISHED", Some("example.com"))

RetentionSnapshots(c) ==
    IF c < EarlyTime THEN { <<Socket10>>, <<Socket10, Socket20>> } ELSE { <<Socket10>> }

RetentionTables == { [p \in Pids |-> ProcRow(p, 1, "Run")] }

RetentionInit ==
    /\ system_info \in RetentionTables
    /\ last_refresh = 0
    /\ \/ /\ clock = 0
          /\ lastOp = "refresh"
          /\ \E sockets \in RetentionSnapshots(0) : NewWith(sockets)
       \/ NewRefreshFailed
    /\ CallerInit

RetentionRefresh ==
    /\ clock < MaxPolls
    /\ \E sockets \in RetentionSnapshots(clock), sys \in RetentionTables :
        RefreshWith(sockets, sys, clock + 1)

RetentionRefreshFail ==
    /\ clock < EarlyTime
    /\ RefreshFail

RetentionNext == RetentionRefresh \/ RetentionRefreshFail

SpecRetention == RetentionInit /\ [][RetentionNext]_vars

(***************************************************************************)
(* Vocabulary of the properties.                                           *)
(***************************************************************************)
KeyOf(conn) == NaturalKey(conn.pid, conn)
OpenIds(conns) == { id \in DOMAIN conns : ~conns[id].closed }
ClosedIds(conns) == { id \in DOMAIN conns : conns[id].closed }
CreatedIds == (DOMAIN connections') \ (DOMAIN connections)
ClosedNowIds == { id \in OpenIds(connections) : connections'[id].closed }
HistoryCount(id) ==
    Cardinality({ i \in DOMAIN historical_connections : historical_connections[i].id = id })
Max2(a, b) == IF a > b THEN a ELSE b

\* HashMap iteration at lines 148-153 has one candidate at most: no natural
\* key is carried by two records of self.connections
NaturalKeyAtMostOnce ==
    \A a, b \in DOMAIN connections :
        KeyOf(connections[a]) = KeyOf(connections[b]) => a = b

(***************************************************************************)
(* C1.  For every pid, current_concurrent_by_pid equals the number of      *)
(* non-closed connections with that pid held by the registry.              *)
(***************************************************************************)
C1_PidCurrentIsOpenCount ==
    \A pid \in Pids \cup DOMAIN metrics.current_concurrent_by_pid :
        Get(metrics.current_concurrent_by_pid, pid, 0) =
            Cardinality({ id \in OpenIds(connections) : connections[id].pid = pid })

\* a pid with one open and one closed connection, after a refresh
C1_Witness ==
    /\ lastOp = "refresh"
    /\ \E a, b \in DOMAIN connections :
        /\ connections[a].pid = connections[b].pid
        /\ connections[a].closed /\ ~connections[b].closed
        /\ metrics.current_concurrent_by_pid[connections[a].pid] = 1

(***************************************************************************)
(* C2.  A refresh whose snapshot lists the 4-tuple of a connection closed  *)
(* earlier (and of no open connection) creates a new record with a new id  *)
(* for it and raises the pid's cumulative total.                           *)
(***************************************************************************)
C2_ReopenCreatesNewRecord ==
    [][lastOp' = "refresh" =>
        \A id \in ClosedIds(connections) :
            ( /\ KeyOf(connections[id]) \in Range(lastKeys')
              /\ \A o \in OpenIds(connections) :
                    KeyOf(connections[o]) # KeyOf(connections[id]) )
            => /\ \E n \in CreatedIds :
                    /\ KeyOf(connections'[n]) = KeyOf(connections[id])
                    /\ ~connections'[n].closed
               /\ Get(metrics'.total_connections_by_pid, connections[id].pid, 0)
                    > Get(metrics.total_connections_by_pid, connections[id].pid, 0)]_vars

(***************************************************************************)
(* C3.  No two non-closed connections share a natural key, also when one   *)
(* snapshot lists the same 4-tuple more than once.                         *)
(***************************************************************************)
C3_OpenNaturalKeyUnique ==
    \A a, b \in OpenIds(connections) :
        KeyOf(connections[a]) = KeyOf(connections[b]) => a = b

\* the last snapshot listed one 4-tuple twice and its connection is open
C3_Witness ==
    /\ lastOp = "refresh"
    /\ \E i, j \in DOMAIN lastKeys :
        /\ i # j
        /\ lastKeys[i] = lastKeys[j]
        /\ \E id \in OpenIds(connections) : KeyOf(connections[id]) = lastKeys[i]

(***************************************************************************)
(* C4.  In each of the three key spaces the stored running maximum of a    *)
(* key is at least its stored current-concurrent value.                    *)
(***************************************************************************)
C4_MaxAtLeastCurrent ==
    /\ \A k \in DOMAIN metrics.current_concurrent_by_pid :
        Get(metrics.max_concurrent_by_pid, k, 0) >= metrics.current_concurrent_by_pid[k]
    /\ \A k \in DOMAIN metrics.current_concurrent_by_host :
        Get(metrics.max_concurrent_by_host, k, 0) >= metrics.current_concurrent_by_host[k]
    /\ \A k \in DOMAIN metrics.current_concurrent_by_process_host :
        Get(metrics.max_concurrent_by_process_host, k, 0)
            >= metrics.current_concurrent_by_process_host[k]

\* a host key that peaked at two connections and now has one
C4_Witness ==
    \E k \in DOMAIN metrics.current_concurrent_by_host :
        /\ metrics.max_concurrent_by_host[k] = 2
        /\ metrics.current_concurrent_by_host[k] = 1

(***************************************************************************)
(* C5.  As claimed: over any registry operation, the running maximum of a  *)
(* key never decreases from one state to the next.                         *)
(***************************************************************************)
C5_MaxNeverDecreases ==
    [][ /\ \A k \in DOMAIN metrics.max_concurrent_by_pid :
            Get(metrics'.max_concurrent_by_pid, k, 0) >= metrics.max_concurrent_by_pid[k]
        /\ \A k \in DOMAIN metrics.max_concurrent_by_host :
            Get(metrics'.max_concurrent_by_host, k, 0) >= metrics.max_concurrent_by_host[k]
        /\ \A k \in DOMAIN metrics.max_concurrent_by_process_host :
            Get(metrics'.max_concurrent_by_process_host, k, 0)
                >= metrics.max_concurrent_by_process_host[k] ]_vars

(***************************************************************************)
(* C5, amended.  Over refresh() calls, failed or not, the running maximum  *)
(* of a key never decreases and the key stays present; reset() alone       *)
(* clears the maxima.                                                      *)
(***************************************************************************)
C5_MaxNeverDecreasesAcrossRefresh ==
    [][lastOp' # "reset" =>
        /\ \A k \in DOMAIN metrics.max_concurrent_by_pid :
            /\ k \in DOMAIN metrics'.max_concurrent_by_pid
            /\ metrics'.max_concurrent_by_pid[k] >= metrics.max_concurrent_by_pid[k]
        /\ \A k \in DOMAIN metrics.max_concurrent_by_host :
            /\ k \in DOMAIN metrics'.max_concurrent_by_host
            /\ metrics'.max_concurrent_by_host[k] >= metrics.max_concurrent_by_host[k]
        /\ \A k \in DOMAIN metrics.max_concurrent_by_process_host :
            /\ k \in DOMAIN metrics'.max_concurrent_by_process_host
            /\ metrics'.max_concurrent_by_process_host[k]
                >= metrics.max_concurrent_by_process_host[k] ]_vars

\* a refresh closed the last connection of a pid: its maximum is kept
C5_Witness ==
    /\ lastOp = "refresh"
    /\ \E pid \in DOMAIN metrics.max_concurrent_by_pid :
        /\ metrics.max_concurrent_by_pid[pid] >= 1
        /\ metrics.current_concurrent_by_pid[pid] = 0
        /\ \E i \in DOMAIN historical_connections :
            /\ historical_connections[i].pid = pid
            /\ historical_connections[i].last_seen = clock

(***************************************************************************)
(* C6.  A refresh() that fails on the snapshot source leaves the registry  *)
(* as it was: connections, history, processes, counters, the poll          *)
(* timestamps and the memory samples.                                      *)
(***************************************************************************)
C6_FailedRefreshChangesNothing ==
    [][lastOp' = "refresh_err" => UNCHANGED registry]_vars

\* a failed refresh of a registry that holds an open connection and a poll
C6_Witness ==
    /\ lastOp = "refresh_err"
    /\ OpenIds(connections) # {}
    /\ metrics.sample_timestamps # << >>
    /\ metrics.memory_history # EmptyMap

(***************************************************************************)
(* C7.  A record marked closed is not changed by any later refresh.        *)
(***************************************************************************)
C7_ClosedRecordImmutable ==
    [][lastOp' = "refresh" =>
        \A id \in ClosedIds(connections) :
            /\ id \in DOMAIN connections'
            /\ connections'[id] = connections[id]]_vars

(***************************************************************************)
(* C8.  A connection is closed once: the close block (decrements, push to  *)
(* the historical list) runs for it at most once, and it runs in the first *)
(* refresh whose snapshot lacks its natural key.                           *)
(***************************************************************************)
C8_ClosedExactlyOnce ==
    /\ [](\A id \in DOMAIN connections :
            /\ Get(closeCount, id, 0) <= 1
            /\ HistoryCount(id) = Get(closeCount, id, 0)
            /\ connections[id].closed <=> Get(closeCount, id, 0) = 1)
    /\ [][lastOp' = "refresh" =>
            \A id \in OpenIds(connections) :
                connections'[id].closed <=> KeyOf(connections[id]) \notin Range(lastKeys')]_vars

\* a closed connection has lived through a later refresh that did not list it
C8_Witness ==
    /\ lastOp = "refresh"
    /\ \E id \in ClosedIds(connections) :
        /\ connections[id].last_seen < clock
        /\ KeyOf(connections[id]) \notin Range(lastKeys)
        /\ closeCount[id] = 1

(***************************************************************************)
(* C9.  A closed connection is in the historical list and no longer in the *)
(* live table: every record is in exactly one of the two collections.      *)
(***************************************************************************)
C9_ClosedMovedOutOfLiveTable ==
    /\ \A id \in DOMAIN connections : HistoryCount(id) = 0
    /\ \A i \in DOMAIN historical_connections :
        historical_connections[i].id \notin DOMAIN connections

WithHostKey(conns, ids, k) ==
    { id \in ids : /\ IsSome(conns[id].remote_hostname)
                   /\ HostKey(Unwrap(conns[id].remote_hostname), conns[id].remote_port) = k }
WithProcessHostKey(conns, ids, k) ==
    { id \in ids : /\ IsSome(conns[id].remote_hostname)
                   /\ ProcessHostKey(conns[id].pid, Unwrap(conns[id].remote_hostname),
                                     conns[id].remote_port) = k }
HostKeysOf(conns) ==
    { HostKey(Unwrap(conns[id].remote_hostname), conns[id].remote_port) :
        id \in { i \in DOMAIN conns : IsSome(conns[i].remote_hostname) } }
ProcessHostKeysOf(conns) ==
    { ProcessHostKey(conns[id].pid, Unwrap(conns[id].remote_hostname), conns[id].remote_port) :
        id \in { i \in DOMAIN conns : IsSome(conns[i].remote_hostname) } }

(***************************************************************************)
(* C10.  A connection without resolved hostname counts for its pid when it *)
(* is created, and for no "host:port" key and no (pid, host, port) key:    *)
(* over a refresh those counters move by the connections that have a       *)
(* hostname, and by nothing else.                                          *)
(***************************************************************************)
C10_NoHostnameCountsForPidOnly ==
    [][lastOp' = "refresh" =>
        /\ \A pid \in Pids :
            Get(metrics'.total_connections_by_pid, pid, 0) =
                Get(metrics.total_connections_by_pid, pid, 0)
                + Cardinality({ id \in CreatedIds : connections'[id].pid = pid })
        /\ \A pid \in Pids :
            Get(metrics'.current_concurrent_by_pid, pid, 0) =
                Get(metrics.current_concurrent_by_pid, pid, 0)
                + Cardinality({ id \in CreatedIds : connections'[id].pid = pid })
                - Cardinality({ id \in ClosedNowIds : connections[id].pid = pid })
        /\ DOMAIN metrics'.total_connections_by_host = HostKeysOf(connections')
        /\ DOMAIN metrics'.current_concurrent_by_host = HostKeysOf(connections')
        /\ DOMAIN metrics'.max_concurrent_by_host = HostKeysOf(connections')
        /\ \A k \in HostKeysOf(connections') :
            LET created == Cardinality(WithHostKey(connections', CreatedIds, k))
                closed == Cardinality(WithHostKey(connections', ClosedNowIds, k))
                before == Get(metrics.current_concurrent_by_host, k, 0)
            IN  /\ metrics'.total_connections_by_host[k] =
                    Get(metrics.total_connections_by_host, k, 0) + created
                /\ metrics'.current_concurrent_by_host[k] = before + created - closed
                /\ metrics'.max_concurrent_by_host[k] =
                    Max2(Get(metrics.max_concurrent_by_host, k, 0), before + created)
        /\ DOMAIN metrics'.total_connections_by_process_host = ProcessHostKeysOf(connections')
        /\ DOMAIN metrics'.current_concurrent_by_process_host = ProcessHostKeysOf(connections')
        /\ DOMAIN metrics'.max_concurrent_by_process_host = ProcessHostKeysOf(connections')
        /\ \A k \in ProcessHostKeysOf(connections') :
            LET created == Cardinality(WithProcessHostKey(connections', CreatedIds, k))
                closed == Cardinality(WithProcessHostKey(connections', ClosedNowIds, k))
                before == Get(metrics.current_concurrent_by_process_host, k, 0)
            IN  /\ metrics'.total_connections_by_process_host[k] =
                    Get(metrics.total_connections_by_process_host, k, 0) + created
                /\ metrics'.current_concurrent_by_process_host[k] = before + created - closed
                /\ metrics'.max_concurrent_by_process_host[k] =
                    Max2(Get(metrics.max_concurrent_by_process_host, k, 0), before + created)
    ]_vars

\* a connection without hostname was created and closed, one with a
\* hostname is open: the pid counted both, the host key only the second
C10_Witness ==
    /\ lastOp = "refresh"
    /\ \E a \in ClosedIds(connections), b \in OpenIds(connections) :
        /\ connections[a].remote_hostname = None
        /\ IsSome(connections[b].remote_hostname)
        /\ connections[a].pid = connections[b].pid
        /\ metrics.total_connections_by_pid[connections[a].pid] = 2
        /\ metrics.total_connections_by_host = ("example.com:443" :> 1)

\* the last n elements of a series (all of it when it is shorter)
LastN(series, n) ==
    IF Len(series) <= n THEN series ELSE SubSeq(series, Len(series) - n + 1, Len(series))

(***************************************************************************)
(* C11.  After any number of successful refreshes, more than 1000          *)
(* included, sample_timestamps has at most 1000 entries and is exactly the *)
(* `now` of the most recent successful refreshes since the registry was    *)
(* created, in their order: the oldest ones are the ones evicted.          *)
(***************************************************************************)
C11_PollSeriesIsRecentPolls ==
    /\ Len(metrics.sample_timestamps) <= 1000
    /\ metrics.sample_timestamps = LastN(polled, 1000)

\* more than 1000 refreshes succeeded, after one that failed: the first
\* retained timestamp is not the first recorded
C11_Witness ==
    /\ Len(polled) > 1000
    /\ Len(polled) < clock
    /\ lastOp = "refresh"
    /\ Len(metrics.sample_timestamps) = 1000
    /\ Head(metrics.sample_timestamps) > Head(polled)

(***************************************************************************)
(* C12.  For every pid, the memory series has at most 1000 entries and is  *)
(* exactly the most recent samples taken for that pid since the registry   *)
(* was created, in the order they were taken; and a step that takes no     *)
(* sample for a pid leaves that pid's series as it was, whatever is        *)
(* evicted from the series of another pid.                                 *)
(***************************************************************************)
C12_MemorySeriesPerPid ==
    /\ [](\A pid \in Pids \cup DOMAIN metrics.memory_history \cup DOMAIN sampled :
            /\ Len(Get(metrics.memory_history, pid, << >>)) <= 1000
            /\ Get(metrics.memory_history, pid, << >>) =
                    LastN(Get(sampled, pid, << >>), 1000))
    /\ [][\A pid \in Pids :
            Get(sampled', pid, << >>) = Get(sampled, pid, << >>)
            => Get(metrics'.memory_history, pid, << >>) =
                    Get(metrics.memory_history, pid, << >>)]_vars

\* pid 10 has lost its oldest samples while pid 20 still holds every sample
\* taken for it
C12_Witness ==
    /\ 10 \in DOMAIN sampled /\ 20 \in DOMAIN sampled
    /\ Len(sampled[10]) > 1000
    /\ Len(metrics.memory_history[10]) = 1000
    /\ Head(metrics.memory_history[10]) # Head(sampled[10])
    /\ metrics.memory_history[20] = sampled[20]
    /\ Len(sampled[20]) > 0

(***************************************************************************)
(* The filter specification: matches_connection called on connections,    *)
(* process names and filters drawn from the sets below.                    *)
(***************************************************************************)
MatchConnections ==
    { ConnectionNew(101, pid, 5000, port, addr, hostname, "ESTABLISHED", 0) :
        pid \in Pids, port \in {80, 443}, addr \in {PublicAddr, LoopbackAddr},
        hostname \in {None, Some("example.com")} }
MatchNames == {None, Some("curl"), Some("sshd")}
\* the filters with all four criteria, those with a process name alone,
\* those with a remote host alone, and the empty one
MatchFilters ==
    { ConnectionFilter(Some(pid), Some(name), Some(host), Some(port)) :
        pid \in Pids, name \in {"ur", "sshd", ""},
        host \in {"example", "93.184", "127"}, port \in {80, 443} }
    \cup { ConnectionFilter(None, Some(name), None, None) : name \in {"ur", ""} }
    \cup { ConnectionFilter(None, None, Some(host), None) :
              host \in {"example", "93.184", "127"} }
    \cup { ConnectionFilterDefault }

MatchInit ==
    /\ system_info \in ProcTables
    /\ last_refresh = 0
    /\ NewRefreshFailed
    /\ CallerInit

\* one call of matches_connection
MatchesConnection ==
    /\ \E filter \in MatchFilters, conn \in MatchConnections, name \in MatchNames :
        returned' = Some([op |-> "matches_connection", filter |-> filter, conn |-> conn,
                          process_name |-> name,
                          result |-> matches_connection(filter, conn, name)])
    /\ UNCHANGED <<connections, historical_connections, processes, system_info,
                   last_refresh, metrics, clock, lastOp, socketsRead, lastKeys,
                   closeCount, polled, sampled>>
    /\ UNCHANGED app

MatchNext == MatchesConnection

SpecMatch == MatchInit /\ [][MatchNext]_vars

\* the filter carrying one criterion of `filter` and no other
OnlyPid(filter) == ConnectionFilter(filter.pid, None, None, None)
OnlyProcessName(filter) == ConnectionFilter(None, filter.process_name, None, None)
OnlyRemoteHost(filter) == ConnectionFilter(None, None, filter.remote_host, None)
OnlyRemotePort(filter) == ConnectionFilter(None, None, None, filter.remote_port)

IsMatchCall == IsSome(returned) /\ Unwrap(returned).op = "matches_connection"
AllFourSet(filter) ==
    /\ IsSome(filter.pid) /\ IsSome(filter.process_name)
    /\ IsSome(filter.remote_host) /\ IsSome(filter.remote_port)

(***************************************************************************)
(* C14.  For a filter with all four criteria set, matches_connection       *)
(* returns exactly the conjunction of what the four filters carrying one   *)
(* of its criteria each return on the same connection and process name.    *)
(***************************************************************************)
C14_MatchIsConjunctionOfCriteria ==
    (IsMatchCall /\ AllFourSet(Unwrap(returned).filter)) =>
        LET call == Unwrap(returned)
        IN  call.result =
                ( /\ matches_connection(OnlyPid(call.filter), call.conn, call.process_name)
                  /\ matches_connection(OnlyProcessName(call.filter), call.conn,
                                        call.process_name)
                  /\ matches_connection(OnlyRemoteHost(call.filter), call.conn,
                                        call.process_name)
                  /\ matches_connection(OnlyRemotePort(call.filter), call.conn,
                                        call.process_name) )

\* a four-criteria call that matched through the address fallback of the
\* host criterion
C14_Witness ==
    /\ IsMatchCall
    /\ AllFourSet(Unwrap(returned).filter)
    /\ Unwrap(returned).result
    /\ IsSome(Unwrap(returned).conn.remote_hostname)
    /\ Unwrap(returned).filter.remote_host = Some("93.184")

(***************************************************************************)
(* The view specification: the registry under refresh() and reset() on a   *)
(* few snapshots, and the five views called on it in any order.            *)
(***************************************************************************)
SocketLoopback == SocketInfo(<<10>>, 5000, LoopbackAddr, 443, "ESTABLISHED", None)

ViewSnapshots == { << >>, <<Socket10, Socket20>>, <<Socket10, SocketLoopback>> }

ViewFilters ==
    { ConnectionFilterDefault,
      ConnectionFilter(None, Some("ur"), Some("example"), Some(443)) }

ViewsInit ==
    /\ system_info \in ProcTables
    /\ last_refresh = 0
    /\ \/ /\ clock = 0
          /\ lastOp = "refresh"
          /\ \E sockets \in ViewSnapshots : NewWith(sockets)
       \/ NewRefreshFailed
    /\ CallerInit

ViewsRefresh ==
    /\ clock < MaxTime
    /\ \E sockets \in ViewSnapshots, sys \in ProcTables :
        RefreshWith(sockets, sys, clock + 1)

\* the call follows a call of the same view with the same filter, no
\* refresh() or reset() between the two
Repeats(op, filter) ==
    /\ lastOp = "view"
    /\ IsSome(returned)
    /\ Unwrap(returned).op = op
    /\ Unwrap(returned).filter = filter

\* what a view call leaves alone: everything but the record of the call
Viewed(op, filter, result) ==
    /\ returned' = Some([op |-> op, filter |-> filter, result |-> result,
                         repeat |-> Repeats(op, filter)])
    /\ lastOp' = "view"
    /\ UNCHANGED <<connections, historical_connections, processes, system_info,
                   last_refresh, metrics, clock, socketsRead, lastKeys,
                   closeCount, polled, sampled>>
    /\ UNCHANGED app

\* a get_host_metrics that takes the historical records out of the registry
GetHostMetricsDraining ==
    \E filter \in ViewFilters :
        \E rows \in Orders(get_host_metrics(filter)) :
            /\ returned' = Some([op |-> "get_host_metrics", filter |-> filter,
                                 result |-> rows,
                                 repeat |-> Repeats("get_host_metrics", filter)])
            /\ lastOp' = "view"
            /\ historical_connections' = << >>
            /\ UNCHANGED <<connections, processes, system_info, last_refresh, metrics,
                           clock, socketsRead, lastKeys, closeCount, polled, sampled>>
            /\ UNCHANGED app

GetHostMetrics ==
    \E filter \in ViewFilters :
        \E rows \in Orders(get_host_metrics(filter)) :
            Viewed("get_host_metrics", filter, rows)

GetProcessMetrics ==
    \E filter \in ViewFilters :
        \E rows \in Orders(get_process_metrics(filter)) :
            Viewed("get_process_metrics", filter, rows)

GetProcessHostMetrics ==
    \E filter \in ViewFilters :
        \E rows \in Orders(get_process_host_metrics(filter)) :
            Viewed("get_process_host_metrics", filter, rows)

GetConnectionHistoryFiltered ==
    \E filter \in ViewFilters :
        Viewed("get_connection_history_filtered", filter,
               get_connection_history_filtered(filter, None, None))

GetMemoryHistoryFiltered ==
    \E filter \in ViewFilters :
        Viewed("get_memory_history_filtered", filter,
               get_memory_history_filtered(filter, None, None))

ViewsNext ==
    \/ ViewsRefresh \/ RefreshFail \/ Reset
    \/ GetHostMetrics \/ GetProcessMetrics \/ GetProcessHostMetrics
    \/ GetConnectionHistoryFiltered \/ GetMemoryHistoryFiltered

SpecViews == ViewsInit /\ [][ViewsNext]_vars

\* this step is a view call that follows a call of the same view with the
\* same filter, no refresh() or reset() between the two
SameViewAgain ==
    /\ lastOp = "view" /\ lastOp' = "view"
    /\ IsSome(returned) /\ IsSome(returned')
    /\ Unwrap(returned').op = Unwrap(returned).op
    /\ Unwrap(returned').filter = Unwrap(returned).filter
    /\ Unwrap(returned').repeat

TableViews == {"get_host_metrics", "get_process_metrics", "get_process_host_metrics"}

ConnectionsWith(P(_)) == { c.id : c \in { r \in AllRecords : P(r) } }

(***************************************************************************)
(* C15.  In the host view, for every filter and every group (host or       *)
(* address string, port): current is the number of non-closed connections  *)
(* of the group matching the filter, and total is the number of            *)
(* connections, live or historical, of the group matching the filter, each *)
(* connection counted once.                                                *)
(***************************************************************************)
C15_HostViewCountsEachOnce ==
    \A filter \in ViewFilters :
        \A row \in get_host_metrics(filter) :
            LET InGroup(c) ==
                    /\ Matches(filter, c)
                    /\ HostOf(c) = row.host
                    /\ c.remote_port = row.port
            IN  /\ row.current_connections =
                        Cardinality(ConnectionsWith(LAMBDA c : InGroup(c) /\ ~c.closed))
                /\ row.total_connections =
                        Cardinality(ConnectionsWith(LAMBDA c : InGroup(c)))

(***************************************************************************)
(* C16.  For every filter and every retained poll timestamp t, the count   *)
(* the history view gives at t is the number of connections matching the   *)
(* filter with first_seen <= t and (t <= last_seen or not closed), each    *)
(* connection counted once.                                                *)
(***************************************************************************)
C16_HistoryCountsEachOnce ==
    \A filter \in ViewFilters :
        LET history == get_connection_history_filtered(filter, None, None)
        IN  /\ Len(history) = Len(metrics.sample_timestamps)
            /\ \A i \in DOMAIN history :
                /\ history[i][1] = metrics.sample_timestamps[i]
                /\ history[i][2] =
                        Cardinality(ConnectionsWith(
                            LAMBDA c : Matches(filter, c) /\ WasActive(c, history[i][1])))

(***************************************************************************)
(* C17.  After reset() the registry holds no live and no historical        *)
(* connection, no process record, no counter under any pid, host or        *)
(* (pid, host, port) key, no memory series and no poll timestamp; and the  *)
(* refresh that follows creates one new, open record, first seen at that   *)
(* refresh, for every natural key its snapshot lists.                      *)
(***************************************************************************)
C17_ResetEmptiesRegistry ==
    /\ [](lastOp = "reset" =>
            /\ connections = EmptyMap
            /\ historical_connections = << >>
            /\ processes = EmptyMap
            /\ \A counter \in DOMAIN metrics : metrics[counter] \in {EmptyMap, << >>}
            /\ metrics.memory_history = EmptyMap
            /\ metrics.sample_timestamps = << >>)
    /\ [][(lastOp = "reset" /\ lastOp' = "refresh") =>
            /\ { KeyOf(connections'[id]) : id \in DOMAIN connections' } = Range(lastKeys')
            /\ Cardinality(DOMAIN connections') = Cardinality(Range(lastKeys'))
            /\ \A id \in DOMAIN connections' :
                /\ ~connections'[id].closed
                /\ connections'[id].first_seen = clock'
            /\ historical_connections' = << >>
            /\ \A pid \in Pids :
                Get(metrics'.total_connections_by_pid, pid, 0) =
                    Cardinality({ k \in Range(lastKeys') : k[1] = pid })]_vars

\* reset() has just cleared a registry whose last refresh had processed
\* sockets, and a later refresh can still list some
C17_Witness ==
    /\ lastOp = "reset"
    /\ lastKeys # << >>
    /\ socketsRead < MaxSockets
    /\ clock < MaxTime

(***************************************************************************)
(* The lock specification: App::run_loop on the Mutex around the registry. *)
(* update_monitor holds the guard from before the socket loop of refresh() *)
(* until after its close loop; these are two steps here, so that what a    *)
(* reader could see between them is a state of the model.  HolderPanics is *)
(* a holder of the guard unwinding with it: std poisons the Mutex and      *)
(* every later lock() is Err.                                              *)
(***************************************************************************)
AppSnapshots == { << >>, <<Socket10>>, <<Socket20>> }
AppFilters == { ConnectionFilter(Some(10), None, None, None) }

AppInit ==
    /\ system_info \in ProcTables
    /\ last_refresh = 0
    /\ \/ /\ clock = 0
          /\ lastOp = "refresh"
          /\ \E sockets \in AppSnapshots : NewWith(sockets)
       \/ NewRefreshFailed
    /\ returned = None
    /\ \E initial_filter \in AppFilters :
        AppNew(initial_filter, rebuild_history_data(<< >>, initial_filter))

\* the lock is free and the loop is at the top of a handler
AtHandler == running /\ guard = None

\* UpdateMonitorBegin dropping the guard before the close loop
UpdateMonitorBeginUnguarded ==
    /\ AtHandler /\ ~poisoned /\ pending = None
    /\ clock < MaxTime
    /\ \E sockets \in AppSnapshots, sys \in ProcTables :
        LET t == clock + 1
            mid == AfterSockets(LoopState(connections, historical_connections,
                                          processes, metrics, closeCount),
                                sockets, sys, t)
        IN  /\ connections' = mid.connections
            /\ processes' = mid.processes
            /\ metrics' = mid.metrics
            /\ system_info' = sys
            /\ clock' = t
            /\ pending' = Some([seen |-> mid.seen, now |-> t, sockets |-> sockets])
    /\ guard' = None
    /\ lastOp' = "refresh_begin"
    /\ UNCHANGED <<historical_connections, last_refresh, histories, returned, poisoned,
                   filters, popup, history_data, frame, running>>

\* App::update_monitor, lock() Ok: refresh() up to the end of its socket
\* loop (monitor.rs:118-217), the guard held
UpdateMonitorBegin ==
    /\ AtHandler /\ ~poisoned /\ pending = None
    /\ clock < MaxTime
    /\ \E sockets \in AppSnapshots, sys \in ProcTables :
        LET t == clock + 1
            mid == AfterSockets(LoopState(connections, historical_connections,
                                          processes, metrics, closeCount),
                                sockets, sys, t)
        IN  /\ connections' = mid.connections
            /\ processes' = mid.processes
            /\ metrics' = mid.metrics
            /\ system_info' = sys
            /\ clock' = t
            /\ pending' = Some([seen |-> mid.seen, now |-> t, sockets |-> sockets])
    /\ guard' = Some("update_monitor")
    /\ lastOp' = "refresh_begin"
    /\ UNCHANGED <<historical_connections, last_refresh, histories, returned, poisoned,
                   filters, popup, history_data, frame, running>>

\* the rest of that refresh() (monitor.rs:219-254), then the guard dropped
UpdateMonitorEnd ==
    /\ running /\ IsSome(guard) /\ IsSome(pending)
    /\ LET p == Unwrap(pending)
           st == [LoopState(connections, historical_connections, processes, metrics,
                            closeCount) EXCEPT !.seen = p.seen]
       IN  \E order \in Orders(to_close(connections, p.seen)) :
            LET fin == AfterClose(st, order, p.now, p.now)
            IN  /\ connections' = fin.connections
                /\ historical_connections' = fin.historical_connections
                /\ metrics' = fin.metrics
                /\ closeCount' = fin.closeCount
                /\ last_refresh' = p.now
                /\ lastKeys' = SnapshotKeys(p.sockets)
                /\ socketsRead' = socketsRead + Len(p.sockets)
                /\ polled' = Append(polled, p.now)
                /\ sampled' = SamplesTaken(sampled, p.sockets, system_info, p.now)
    /\ guard' = None
    /\ pending' = None
    /\ lastOp' = "refresh"
    /\ UNCHANGED <<processes, system_info, clock, returned, poisoned, filters, popup,
                   history_data, frame, running>>

\* App::update_monitor, lock() Ok and refresh() Err
UpdateMonitorFail ==
    /\ AtHandler /\ ~poisoned /\ pending = None
    /\ RefreshFail

\* App::update_monitor, lock() Err: the body of the `if let Ok` is skipped
UpdateMonitorPoisoned ==
    /\ AtHandler /\ poisoned
    /\ lastOp' = "update_monitor_skipped"
    /\ UNCHANGED <<registry, clock, histories, caller>>

\* App::reset_monitor, lines 144-148
ResetMonitor ==
    /\ AtHandler
    /\ IF poisoned
       THEN /\ lastOp' = "reset_monitor_skipped"
            /\ UNCHANGED <<registry, clock, histories, caller>>
       ELSE pending = None /\ Reset

\* ActiveConnectionsGraphWidget::update once sample_interval has elapsed,
\* lines 108-121 (the filter hash of line 101 never differs: set_filter
\* stores it)
GraphUpdate ==
    /\ AtHandler
    /\ Len(history_data) < MaxGraphSamples
    /\ history_data' =
            IF poisoned THEN history_data
            ELSE LastPoints(Append(history_data,
                                   get_filtered_active_connections_len(widget_filter["graph"])),
                            GraphMaxPoints)
    /\ lastOp' = "graph_update"
    /\ UNCHANGED <<registry, clock, histories, returned, poisoned, guard, pending, filters,
                   popup, frame, running>>

\* Draw rendering the data of a poisoned lock all the same
DrawIntoInner ==
    /\ AtHandler
    /\ frame' = [w \in Renderers |->
                    CASE w = "host_table" -> Some(get_host_metrics(widget_filter[w]))
                      [] w = "process_table" -> Some(get_process_metrics(widget_filter[w]))
                      [] w = "summary" -> Some(SummaryOf(widget_filter[w]))]
    /\ lastOp' = "draw"
    /\ UNCHANGED <<registry, clock, histories, returned, poisoned, guard, pending, filters,
                   popup, history_data, running>>

\* App::draw, lines 150-236: render() of every widget.  A panic in a
\* render() unwinds out of run_loop before the frame is flushed.
Draw ==
    /\ AtHandler
    /\ IF \E w \in Tables : SlicePanics(w)
       THEN running' = FALSE /\ UNCHANGED frame
       ELSE frame' = [w \in Renderers |-> Render(w)] /\ UNCHANGED running
    /\ lastOp' = "draw"
    /\ UNCHANGED <<registry, clock, histories, returned, poisoned, guard, pending, filters,
                   popup, history_data>>

\* App::apply_filter, lines 380-388
apply_filter(filter) ==
    /\ current_filter' = filter
    /\ widget_filter' = [w \in Widgets |-> filter]
    /\ scroll_offset' = [w \in Tables |-> 0]
    /\ history_data' = rebuild_history_data(history_data, filter)

\* App::clear_all_filters, lines 370-374
ClearAllFilters ==
    /\ AtHandler
    /\ ~filter_widget.active
    /\ apply_filter(ConnectionFilterDefault)
    /\ lastOp' = "apply_filter"
    /\ UNCHANGED <<registry, clock, histories, returned, poisoned, guard, pending, popup,
                   frame, running>>

\* the holder of the guard panics inside refresh(): the guard is dropped
\* while unwinding, the Mutex is poisoned, the registry stays as the
\* interrupted refresh() left it
HolderPanics ==
    /\ IsSome(guard)
    /\ guard' = None
    /\ poisoned' = TRUE
    /\ lastOp' = "panic"
    /\ UNCHANGED <<registry, clock, histories, returned, pending, filters, popup,
                   history_data, frame, running>>

AppNext ==
    \/ UpdateMonitorBegin \/ UpdateMonitorEnd \/ UpdateMonitorFail \/ UpdateMonitorPoisoned
    \/ ResetMonitor \/ GraphUpdate \/ Draw \/ ClearAllFilters \/ HolderPanics

SpecApp == AppInit /\ [][AppNext]_vars

(***************************************************************************)
(* C18: while the Mutex around the registry is poisoned, a tick            *)
(* (update_monitor and the graph's sample), a reset command and a draw     *)
(* leave the registry and the graph's buffer as they are, a draw renders   *)
(* no table and no summary, and the loop is still running with its tick,   *)
(* its reset and its draw able to run again.                               *)
(***************************************************************************)
C18_PoisonedLockIsSkipped ==
    /\ [][poisoned =>
            /\ UNCHANGED registry
            /\ history_data' = history_data
            /\ lastOp' = "draw" => \A w \in Renderers : frame'[w] = None]_vars
    /\ [](poisoned =>
            /\ running
            /\ ENABLED UpdateMonitorPoisoned
            /\ ENABLED ResetMonitor
            /\ ENABLED Draw)

\* a draw on a lock that was poisoned in the middle of a refresh(), with
\* connections in the registry that a table would have listed
C18_Witness ==
    /\ poisoned
    /\ IsSome(pending)
    /\ lastOp = "draw"
    /\ DOMAIN connections # {}
    /\ \A w \in Renderers : frame[w] = None

\* a step in which a reader scanned the registry: a draw that rendered a
\* widget, or a sample the graph took
ViewRead ==
    \/ lastOp' = "draw" /\ \E w \in Renderers : IsSome(frame'[w])
    \/ lastOp' = "graph_update" /\ history_data' # history_data

(***************************************************************************)
(* C19: a reader never scans the registry between the socket loop and the  *)
(* close loop of a refresh(): whenever a draw renders a widget or the      *)
(* graph takes a sample, no refresh() is part-way through, the step leaves *)
(* the registry alone, and what a draw renders is the view of that         *)
(* registry.                                                               *)
(***************************************************************************)
C19_ReadersSeeWholeRefreshes ==
    [][ViewRead =>
        /\ pending = None
        /\ UNCHANGED registry
        /\ lastOp' = "draw" =>
                /\ frame'["host_table"] = Some(get_host_metrics(widget_filter["host_table"]))
                /\ frame'["process_table"] =
                        Some(get_process_metrics(widget_filter["process_table"]))
                /\ frame'["summary"] = Some(SummaryOf(widget_filter["summary"]))]_vars

\* a draw after a two-step refresh() that opened one connection in its
\* socket loop and closed another in its close loop
C19_Witness ==
    /\ lastOp = "draw"
    /\ \A w \in Renderers : IsSome(frame[w])
    /\ Len(polled) >= 2
    /\ \E k \in DOMAIN connections :
            ~connections[k].closed /\ connections[k].first_seen = last_refresh
    /\ \E i \in 1..Len(historical_connections) :
            historical_connections[i].last_seen = last_refresh

(***************************************************************************)
(* The popup specification: App::handle_key_event with the filter popup,   *)
(* on a registry that stays as new() left it.                              *)
(***************************************************************************)
PopupFilters == { ConnectionFilter(Some(10), None, None, Some(65535)) }

\* the characters typed: a digit and a letter
Keys == {"1", "x"}

PopupInit ==
    /\ system_info \in RetentionTables
    /\ last_refresh = 0
    /\ clock = 0
    /\ lastOp = "refresh"
    /\ NewWith(<<Socket10, Socket20>>)
    /\ returned = None
    /\ \E initial_filter \in PopupFilters :
        AppNew(initial_filter, rebuild_history_data(<< >>, initial_filter))

\* what a key leaves alone when it only edits the popup
beside_popup == <<registry, clock, histories, returned, poisoned, guard, pending, filters,
                  history_data, frame, running>>

\* 'f' with the popup closed: App::enter_filter_mode, lines 376-378
EnterFilterMode ==
    /\ AtHandler /\ ~filter_widget.active
    /\ filter_widget' = show(filter_widget, current_filter)
    /\ lastOp' = "enter_filter_mode"
    /\ UNCHANGED <<beside_popup, keysTyped>>

\* FilterWidget::handle_key_event, KeyCode::Char, lines 146-154
KeyChar ==
    /\ AtHandler /\ filter_widget.active
    /\ keysTyped < MaxKeys
    /\ \E c \in Keys :
        filter_widget' =
            [filter_widget EXCEPT ![InputOf(filter_widget.current_field)] = @ \o c]
    /\ keysTyped' = keysTyped + 1
    /\ lastOp' = "key_char"
    /\ UNCHANGED beside_popup

\* KeyCode::Backspace, lines 155-163: String::pop
KeyBackspace ==
    /\ AtHandler /\ filter_widget.active
    /\ keysTyped < MaxKeys
    /\ filter_widget' =
            [filter_widget EXCEPT ![InputOf(filter_widget.current_field)] =
                IF @ = "" THEN "" ELSE SubSeq(@, 1, Len(@) - 1)]
    /\ keysTyped' = keysTyped + 1
    /\ lastOp' = "key_backspace"
    /\ UNCHANGED beside_popup

\* KeyCode::Tab, lines 138-141
KeyTab ==
    /\ AtHandler /\ filter_widget.active
    /\ filter_widget' = [filter_widget EXCEPT !.current_field = FieldNext(@)]
    /\ lastOp' = "key_tab"
    /\ UNCHANGED <<beside_popup, keysTyped>>

\* KeyCode::BackTab, lines 142-145
KeyBackTab ==
    /\ AtHandler /\ filter_widget.active
    /\ filter_widget' = [filter_widget EXCEPT !.current_field = FieldPrev(@)]
    /\ lastOp' = "key_backtab"
    /\ UNCHANGED <<beside_popup, keysTyped>>

\* KeyCode::Esc, lines 121-124
KeyEsc ==
    /\ AtHandler /\ filter_widget.active
    /\ filter_widget' = hide(filter_widget)
    /\ lastOp' = "key_esc"
    /\ UNCHANGED <<beside_popup, keysTyped>>

\* KeyCode::Enter, lines 125-137, and App::handle_key_event, lines 252-256:
\* the filter that was built is applied, or the message is kept
KeyEnter ==
    /\ AtHandler /\ filter_widget.active
    /\ LET built == build_filter(filter_widget)
       IN  IF built.ok
           THEN /\ filter_widget' = hide(filter_widget)
                /\ apply_filter(built.value)
           ELSE /\ filter_widget' = [filter_widget EXCEPT !.error = Some(built.error)]
                /\ UNCHANGED <<filters, history_data>>
    /\ lastOp' = "key_enter"
    /\ UNCHANGED <<registry, clock, histories, returned, poisoned, guard, pending, frame,
                   running, keysTyped>>

PopupNext ==
    \/ EnterFilterMode \/ KeyChar \/ KeyBackspace \/ KeyTab \/ KeyBackTab \/ KeyEsc
    \/ KeyEnter \/ ClearAllFilters

SpecPopup == PopupInit /\ [][PopupNext]_vars

\* the popup holds a pid that is no u32 or a port that is no u16
MalformedPid(fw) == fw.pid_input # "" /\ ~parse_unsigned(fw.pid_input, U32Max).ok
MalformedPort(fw) ==
    fw.remote_port_input # "" /\ ~parse_unsigned(fw.remote_port_input, U16Max).ok

(***************************************************************************)
(* C20: Enter on a popup whose pid or port does not parse leaves the popup *)
(* open with a message that names the rejected input, and leaves the       *)
(* filter of the App, the filter of every widget and the graph's buffer as *)
(* they were.                                                              *)
(***************************************************************************)
C20_MalformedFilterIsRejected ==
    [][(/\ lastOp' = "key_enter"
        /\ filter_widget.active
        /\ MalformedPid(filter_widget) \/ MalformedPort(filter_widget))
       => /\ filter_widget'.active
          /\ filter_widget'.error =
                Some(IF MalformedPid(filter_widget)
                     THEN "Invalid PID: " \o filter_widget.pid_input
                     ELSE "Invalid port: " \o filter_widget.remote_port_input)
          /\ UNCHANGED <<current_filter, widget_filter, history_data>>]_vars

\* Enter on a port one digit too long for a u16: the popup shows the
\* message and every widget still has the filter the App started with
C20_Witness ==
    /\ lastOp = "key_enter"
    /\ filter_widget.active
    /\ filter_widget.error = Some("Invalid port: 655351")
    /\ current_filter \in PopupFilters
    /\ \A w \in Widgets : widget_filter[w] = current_filter

(***************************************************************************)
(* The loop specification: refresh() seen at its two loops.  SocketLoop is *)
(* refresh() from line 118 to the end of the loop over the snapshot        *)
(* (line 217), CloseLoop the rest of it (lines 219-254); between the two   *)
(* `pending` holds the locals of the call and nothing else can run.  The   *)
(* inputs are those of the registry specification, with one clock reading  *)
(* per refresh.                                                            *)
(***************************************************************************)
SocketLoop ==
    /\ pending = None
    /\ clock < MaxTime
    /\ \E sockets \in Snapshots(socketsRead), sys \in ProcTables :
        LET t == clock + 1
            mid == AfterSockets(LoopState(connections, historical_connections,
                                          processes, metrics, closeCount),
                                sockets, sys, t)
        IN  /\ connections' = mid.connections
            /\ processes' = mid.processes
            /\ metrics' = mid.metrics
            /\ system_info' = sys
            /\ clock' = t
            /\ lastKeys' = SnapshotKeys(sockets)
            /\ socketsRead' = socketsRead + Len(sockets)
            /\ sampled' = SamplesTaken(sampled, sockets, sys, t)
            /\ pending' = Some([seen |-> mid.seen, now |-> t, sockets |-> sockets])
    /\ lastOp' = "socket_loop"
    /\ UNCHANGED <<historical_connections, last_refresh, closeCount, polled, returned,
                   poisoned, guard, filters, popup, history_data, frame, running>>

CloseLoop ==
    /\ IsSome(pending)
    /\ LET p == Unwrap(pending)
           st == [LoopState(connections, historical_connections, processes, metrics,
                            closeCount) EXCEPT !.seen = p.seen]
       IN  \E order \in Orders(to_close(connections, p.seen)) :
            LET fin == AfterClose(st, order, p.now, p.now)
            IN  /\ connections' = fin.connections
                /\ historical_connections' = fin.historical_connections
                /\ metrics' = fin.metrics
                /\ closeCount' = fin.closeCount
                /\ last_refresh' = p.now
                /\ polled' = Append(polled, p.now)
    /\ pending' = None
    /\ lastOp' = "refresh"
    /\ UNCHANGED <<processes, system_info, clock, lastKeys, socketsRead, sampled, returned,
                   poisoned, guard, filters, popup, history_data, frame, running>>

LoopsRefreshFail == pending = None /\ RefreshFail

LoopsReset == pending = None /\ Reset

LoopsNext == SocketLoop \/ CloseLoop \/ LoopsRefreshFail \/ LoopsReset

SpecLoops == Init /\ [][LoopsNext]_vars

\* the connections of a set of ids with a pid
WithPid(conns, ids, pid) == { id \in ids : conns[id].pid = pid }

(***************************************************************************)
(* C21.  Over the socket loop of a refresh, every new connection whose     *)
(* hostname resolved adds exactly 1 to the cumulative total and to the     *)
(* current-concurrent counter of its pid key, of its "host:port" key and   *)
(* of its (pid, host, port) key (an absent counter counting as 0), and the *)
(* running maximum of each of these keys becomes the new current value     *)
(* where that is greater.                                                  *)
(***************************************************************************)
C21_CreationCountsOncePerKey ==
    [][lastOp' = "socket_loop" =>
        \A id \in CreatedIds :
            IsSome(connections'[id].remote_hostname) =>
            LET conn == connections'[id]
                pid == conn.pid
                hk == HostKey(Unwrap(conn.remote_hostname), conn.remote_port)
                phk == ProcessHostKey(pid, Unwrap(conn.remote_hostname), conn.remote_port)
                nPid == Cardinality(WithPid(connections', CreatedIds, pid))
                nHost == Cardinality(WithHostKey(connections', CreatedIds, hk))
                nPh == Cardinality(WithProcessHostKey(connections', CreatedIds, phk))
            IN  /\ metrics'.total_connections_by_pid[pid] =
                        Get(metrics.total_connections_by_pid, pid, 0) + nPid
                /\ metrics'.current_concurrent_by_pid[pid] =
                        Get(metrics.current_concurrent_by_pid, pid, 0) + nPid
                /\ metrics'.max_concurrent_by_pid[pid] =
                        Max2(Get(metrics.max_concurrent_by_pid, pid, 0),
                             metrics'.current_concurrent_by_pid[pid])
                /\ metrics'.total_connections_by_host[hk] =
                        Get(metrics.total_connections_by_host, hk, 0) + nHost
                /\ metrics'.current_concurrent_by_host[hk] =
                        Get(metrics.current_concurrent_by_host, hk, 0) + nHost
                /\ metrics'.max_concurrent_by_host[hk] =
                        Max2(Get(metrics.max_concurrent_by_host, hk, 0),
                             metrics'.current_concurrent_by_host[hk])
                /\ metrics'.total_connections_by_process_host[phk] =
                        Get(metrics.total_connections_by_process_host, phk, 0) + nPh
                /\ metrics'.current_concurrent_by_process_host[phk] =
                        Get(metrics.current_concurrent_by_process_host, phk, 0) + nPh
                /\ metrics'.max_concurrent_by_process_host[phk] =
                        Max2(Get(metrics.max_concurrent_by_process_host, phk, 0),
                             metrics'.current_concurrent_by_process_host[phk])]_vars

\* the socket loop has just created a connection to a host another pid
\* already had a connection to: the host key stands at 2/2/2, the new
\* connection's (pid, host, port) key at 1/1/1
C21_Witness ==
    /\ lastOp = "socket_loop"
    /\ \E a, b \in OpenIds(connections) :
        /\ connections[a].first_seen < clock
        /\ connections[b].first_seen = clock
        /\ connections[a].remote_hostname = Some("example.com")
        /\ connections[b].remote_hostname = Some("example.com")
        /\ connections[a].pid # connections[b].pid
        /\ metrics.total_connections_by_host["example.com:443"] = 2
        /\ metrics.current_concurrent_by_host["example.com:443"] = 2
        /\ metrics.max_concurrent_by_host["example.com:443"] = 2
        /\ metrics.total_connections_by_process_host[
                <<connections[b].pid, "example.com", 443>>] = 1

(***************************************************************************)
(* C22.  Over the close loop of a refresh, the current-concurrent counter  *)
(* of a pid goes down by 1 for every connection of that pid the loop       *)
(* closes; the counters of a "host:port" key and of a (pid, host, port)    *)
(* key go down by 1 for every closed connection whose resolved hostname    *)
(* gives that key, and a closed connection without hostname touches none   *)
(* of them; the cumulative totals and the running maxima of all keys stay  *)
(* as they were.                                                           *)
(***************************************************************************)
C22_CloseDecrementsCurrentOnly ==
    [][(IsSome(pending) /\ lastOp' = "refresh") =>
        /\ \A pid \in Pids \cup DOMAIN metrics.current_concurrent_by_pid :
            Get(metrics'.current_concurrent_by_pid, pid, 0) =
                Get(metrics.current_concurrent_by_pid, pid, 0)
                - Cardinality(WithPid(connections, ClosedNowIds, pid))
        /\ DOMAIN metrics'.current_concurrent_by_host =
                DOMAIN metrics.current_concurrent_by_host
        /\ \A k \in DOMAIN metrics.current_concurrent_by_host :
            metrics'.current_concurrent_by_host[k] =
                metrics.current_concurrent_by_host[k]
                - Cardinality(WithHostKey(connections, ClosedNowIds, k))
        /\ DOMAIN metrics'.current_concurrent_by_process_host =
                DOMAIN metrics.current_concurrent_by_process_host
        /\ \A k \in DOMAIN metrics.current_concurrent_by_process_host :
            metrics'.current_concurrent_by_process_host[k] =
                metrics.current_concurrent_by_process_host[k]
                - Cardinality(WithProcessHostKey(connections, ClosedNowIds, k))
        /\ metrics'.total_connections_by_pid = metrics.total_connections_by_pid
        /\ metrics'.total_connections_by_host = metrics.total_connections_by_host
        /\ metrics'.total_connections_by_process_host =
                metrics.total_connections_by_process_host
        /\ metrics'.max_concurrent_by_pid = metrics.max_concurrent_by_pid
        /\ metrics'.max_concurrent_by_host = metrics.max_concurrent_by_host
        /\ metrics'.max_concurrent_by_process_host =
                metrics.max_concurrent_by_process_host]_vars

\* the close loop has just closed a connection with a hostname and one
\* without, both of pid 10: the pid is at current 0, total 2, the host key
\* at current 0, total 1, maximum 1
C22_Witness ==
    /\ lastOp = "refresh"
    /\ \E i, j \in DOMAIN historical_connections :
        /\ historical_connections[i].last_seen = clock
        /\ historical_connections[j].last_seen = clock
        /\ historical_connections[i].pid = 10
        /\ historical_connections[j].pid = 10
        /\ historical_connections[i].remote_hostname = Some("example.com")
        /\ historical_connections[j].remote_hostname = None
    /\ metrics.current_concurrent_by_pid[10] = 0
    /\ metrics.total_connections_by_pid[10] = 2
    /\ metrics.current_concurrent_by_host = ("example.com:443" :> 0)
    /\ metrics.total_connections_by_host = ("example.com:443" :> 1)
    /\ metrics.max_concurrent_by_host = ("example.com:443" :> 1)

\* the nine counter maps of the registry
Counters(m) ==
    <<m.total_connections_by_pid, m.current_concurrent_by_pid, m.max_concurrent_by_pid,
      m.total_connections_by_host, m.current_concurrent_by_host, m.max_concurrent_by_host,
      m.total_connections_by_process_host, m.current_concurrent_by_process_host,
      m.max_concurrent_by_process_host>>

\* the TCP states the entries of a snapshot give for a natural key
StatesListed(sockets, key) ==
    { sockets[i].state : i \in { j \in DOMAIN sockets :
        /\ sockets[j].state # Listen
        /\ sockets[j].associated_pids # << >>
        /\ NaturalKey(sockets[j].associated_pids[1], sockets[j]) = key } }

(***************************************************************************)
(* C23.  Over the socket loop of a refresh, a connection the registry      *)
(* already holds and whose natural key the snapshot lists keeps its id and *)
(* every field but its TCP state and its last-seen time, which become the  *)
(* listed state and the time of the refresh; no connection is created for  *)
(* that key; the counters move by the connections created and by nothing   *)
(* else, so a snapshot of known connections alone leaves all nine counter  *)
(* maps as they were.                                                      *)
(***************************************************************************)
C23_SeenAgainTouchesStateOnly ==
    [][lastOp' = "socket_loop" =>
        /\ \A id \in DOMAIN connections :
            KeyOf(connections[id]) \in Range(lastKeys') =>
                /\ connections'[id] =
                        [connections[id] EXCEPT !.state = connections'[id].state,
                                                !.last_seen = clock']
                /\ connections'[id].state \in
                        StatesListed(Unwrap(pending').sockets, KeyOf(connections[id]))
                /\ \A n \in CreatedIds : KeyOf(connections'[n]) # KeyOf(connections[id])
        /\ \A pid \in Pids :
            Get(metrics'.total_connections_by_pid, pid, 0) =
                Get(metrics.total_connections_by_pid, pid, 0)
                + Cardinality(WithPid(connections', CreatedIds, pid))
        /\ CreatedIds = {} => Counters(metrics') = Counters(metrics)]_vars

\* the socket loop has just found the one connection of the registry in
\* TIME_WAIT: the record created from the ESTABLISHED entry has the new
\* state and time, and the pid still counts one connection
C23_Witness ==
    /\ lastOp = "socket_loop"
    /\ Cardinality(DOMAIN connections) = 1
    /\ \E id \in DOMAIN connections :
        /\ connections[id].first_seen < clock
        /\ connections[id].last_seen = clock
        /\ connections[id].state = "TIME_WAIT"
        /\ connections[id].remote_hostname = Some("example.com")
        /\ ~connections[id].closed
    /\ metrics.total_connections_by_pid = (10 :> 1)
    /\ metrics.current_concurrent_by_pid = (10 :> 1)
    /\ metrics.max_concurrent_by_pid = (10 :> 1)

(***************************************************************************)
(* C24.  Every decrement of the close loop finds its counter present and   *)
(* at 1 or more: before the loop, the current-concurrent counter of the    *)
(* pid key of a connection about to be closed, and of its "host:port" key  *)
(* and (pid, host, port) key when it has a hostname, is at least the       *)
(* number of connections the loop closes with that key.  No                *)
(* current-concurrent counter is ever below 0.                             *)
(***************************************************************************)
C24_CloseNeverUnderflows ==
    /\ [][(IsSome(pending) /\ lastOp' = "refresh") =>
            \A id \in ClosedNowIds :
                LET conn == connections[id]
                IN  /\ conn.pid \in DOMAIN metrics.current_concurrent_by_pid
                    /\ metrics.current_concurrent_by_pid[conn.pid] >=
                            Cardinality(WithPid(connections, ClosedNowIds, conn.pid))
                    /\ IsSome(conn.remote_hostname) =>
                        LET hk == HostKey(Unwrap(conn.remote_hostname), conn.remote_port)
                            phk == ProcessHostKey(conn.pid, Unwrap(conn.remote_hostname),
                                                  conn.remote_port)
                        IN  /\ hk \in DOMAIN metrics.current_concurrent_by_host
                            /\ metrics.current_concurrent_by_host[hk] >=
                                    Cardinality(WithHostKey(connections, ClosedNowIds, hk))
                            /\ phk \in DOMAIN metrics.current_concurrent_by_process_host
                            /\ metrics.current_concurrent_by_process_host[phk] >=
                                    Cardinality(WithProcessHostKey(connections,
                                                                   ClosedNowIds, phk))]_vars
    /\ [](/\ \A k \in DOMAIN metrics.current_concurrent_by_pid :
                metrics.current_concurrent_by_pid[k] >= 0
          /\ \A k \in DOMAIN metrics.current_concurrent_by_host :
                metrics.current_concurrent_by_host[k] >= 0
          /\ \A k \in DOMAIN metrics.current_concurrent_by_process_host :
                metrics.current_concurrent_by_process_host[k] >= 0)

\* the close loop has just closed the connections of two pids to one
\* host: two decrements of one host key, from 2 to 0
C24_Witness ==
    /\ lastOp = "refresh"
    /\ \E i, j \in DOMAIN historical_connections :
        /\ historical_connections[i].last_seen = clock
        /\ historical_connections[j].last_seen = clock
        /\ historical_connections[i].pid # historical_connections[j].pid
        /\ historical_connections[i].remote_hostname = Some("example.com")
        /\ historical_connections[j].remote_hostname = Some("example.com")
    /\ metrics.max_concurrent_by_host["example.com:443"] = 2
    /\ metrics.current_concurrent_by_host["example.com:443"] = 0

(***************************************************************************)
(* C25.  For every "host:port" key, current_concurrent_by_host equals the  *)
(* number of non-closed connections of the registry whose resolved         *)
(* hostname and remote port form that key; for every (pid, host, port)     *)
(* key, current_concurrent_by_process_host equals the number of non-closed *)
(* connections with that pid, resolved hostname and port.                  *)
(***************************************************************************)
C25_HostCurrentIsOpenCount ==
    /\ \A k \in DOMAIN metrics.current_concurrent_by_host \cup HostKeysOf(connections) :
        Get(metrics.current_concurrent_by_host, k, 0) =
            Cardinality(WithHostKey(connections, OpenIds(connections), k))
    /\ \A k \in DOMAIN metrics.current_concurrent_by_process_host
                \cup ProcessHostKeysOf(connections) :
        Get(metrics.current_concurrent_by_process_host, k, 0) =
            Cardinality(WithProcessHostKey(connections, OpenIds(connections), k))

\* after a refresh, a host key two pids reached: one of the two
\* connections is closed, the other open, one more is open without
\* hostname
C25_Witness ==
    /\ lastOp = "refresh"
    /\ \E a \in ClosedIds(connections), b, c \in OpenIds(connections) :
        /\ connections[a].remote_hostname = Some("example.com")
        /\ connections[b].remote_hostname = Some("example.com")
        /\ connections[c].remote_hostname = None
        /\ connections[a].pid # connections[b].pid
    /\ metrics.current_concurrent_by_host["example.com:443"] = 1
    /\ metrics.max_concurrent_by_host["example.com:443"] = 2

(***************************************************************************)
(* C26.  With the empty filter, the process view has one row for every pid *)
(* the registry counts, and the row's total_connections is                 *)
(* total_connections_by_pid of that pid, its current_connections           *)
(* current_concurrent_by_pid of that pid.                                  *)
(***************************************************************************)
C26_ProcessViewAgreesWithCounters ==
    /\ { row.pid : row \in get_process_metrics(ConnectionFilterDefault) } =
            DOMAIN metrics.total_connections_by_pid
    /\ \A row \in get_process_metrics(ConnectionFilterDefault) :
        /\ row.total_connections = Get(metrics.total_connections_by_pid, row.pid, 0)
        /\ row.current_connections = Get(metrics.current_concurrent_by_pid, row.pid, 0)

(***************************************************************************)
(* C27.  With the empty filter, every row of the host view, of the process *)
(* view and of the process-host view has max_concurrent >=                 *)
(* current_connections, the rows of connections known by their address     *)
(* alone included.                                                         *)
(***************************************************************************)
C27_ViewMaxAtLeastCurrent ==
    /\ \A row \in get_host_metrics(ConnectionFilterDefault) :
        row.max_concurrent >= row.current_connections
    /\ \A row \in get_process_metrics(ConnectionFilterDefault) :
        row.max_concurrent >= row.current_connections
    /\ \A row \in get_process_host_metrics(ConnectionFilterDefault) :
        row.max_concurrent >= row.current_connections

(***************************************************************************)
(* C28.  In the state a successful refresh leaves, the last entry of the   *)
(* history view with the empty filter carries the poll timestamp of that   *)
(* refresh and, as its count, the number of non-closed connections of the  *)
(* registry.                                                               *)
(***************************************************************************)
C28_HistoryAtPollIsOpenCount ==
    (lastOp = "refresh" /\ polled # << >>) =>
        LET history == get_connection_history_filtered(ConnectionFilterDefault, None, None)
        IN  /\ history # << >>
            /\ history[Len(history)][1] = last_refresh
            /\ history[Len(history)][2] = Cardinality(OpenIds(connections))

(***************************************************************************)
(* The scroll specification: App::run_loop with the scroll commands, on a  *)
(* host table of more rows than scroll_down takes for visible.  Every      *)
(* snapshot lists the same connections of pid 10 to example.com, one per   *)
(* remote port, so the host view has one row per connection and the        *)
(* process view one row.  The table a scroll command acts on is the        *)
(* focused one, chosen by the keys 1, 2, 3 at any time: the commands take  *)
(* it as an input.  The views give their rows as a set, so the order       *)
(* set_sort_by chooses is not part of the state.                           *)
(***************************************************************************)
ScrollSockets ==
    [i \in 1..(VisibleRows + MaxScroll) |->
        SocketInfo(<<10>>, 5000, PublicAddr, 443 + i, "ESTABLISHED", Some("example.com"))]

ScrollFilters == { ConnectionFilter(Some(10), None, None, None) }

\* Up and Down scroll by 1, PageUp and PageDown by 10 (the mouse wheel by 3)
ScrollAmounts == {1, 10}

ScrollInit ==
    /\ system_info \in RetentionTables
    /\ last_refresh = 0
    /\ \/ /\ clock = 0
          /\ lastOp = "refresh"
          /\ NewWith(ScrollSockets)
       \/ NewRefreshFailed
    /\ returned = None
    /\ \E initial_filter \in ScrollFilters :
        AppNew(initial_filter, rebuild_history_data(<< >>, initial_filter))

\* what a scroll command leaves alone
beside_scroll == <<registry, clock, histories, returned, poisoned, guard, pending,
                   current_filter, widget_filter, popup, history_data, frame, running>>

\* the rows App::scroll_focused_table_down counts, lines 304-331 and 341-368
TotalRows(table) ==
    IF table = "host_table" THEN Cardinality(get_host_metrics(current_filter))
    ELSE Cardinality(get_process_metrics(current_filter))

\* total_rows.saturating_sub(visible_rows)
MaxScrollOf(table) ==
    IF TotalRows(table) > VisibleRows THEN TotalRows(table) - VisibleRows ELSE 0

\* App::update_monitor, lines 138-142, lock() Ok and refresh() Ok
ScrollUpdateMonitor ==
    /\ AtHandler /\ ~poisoned
    /\ clock < MaxTime
    /\ \E sys \in RetentionTables : RefreshWith(ScrollSockets, sys, clock + 1)

\* App::update_monitor, refresh() Err
ScrollUpdateMonitorFail == AtHandler /\ ~poisoned /\ clock < EarlyTime /\ RefreshFail

\* scroll_up of the focused table: saturating_sub
ScrollUp ==
    /\ AtHandler /\ ~filter_widget.active
    /\ \E table \in Tables, amount \in ScrollAmounts :
        scroll_offset' =
            [scroll_offset EXCEPT ![table] = IF @ > amount THEN @ - amount ELSE 0]
    /\ lastOp' = "scroll_up"
    /\ UNCHANGED beside_scroll

\* App::scroll_focused_table_down, lines 304-331, and scroll_down of the
\* widget
ScrollDown ==
    /\ AtHandler /\ ~filter_widget.active
    /\ \E table \in Tables, amount \in ScrollAmounts :
        scroll_offset' =
            IF poisoned THEN scroll_offset
            ELSE [scroll_offset EXCEPT
                    ![table] = IF @ + amount < MaxScrollOf(table) THEN @ + amount
                               ELSE MaxScrollOf(table)]
    /\ lastOp' = "scroll_down"
    /\ UNCHANGED beside_scroll

\* Home: scroll_to_top of the focused table
ScrollToTop ==
    /\ AtHandler /\ ~filter_widget.active
    /\ \E table \in Tables : scroll_offset' = [scroll_offset EXCEPT ![table] = 0]
    /\ lastOp' = "scroll_to_top"
    /\ UNCHANGED beside_scroll

\* End: App::scroll_focused_table_to_bottom, lines 341-368
ScrollToBottom ==
    /\ AtHandler /\ ~filter_widget.active
    /\ \E table \in Tables :
        scroll_offset' =
            IF poisoned THEN scroll_offset
            ELSE [scroll_offset EXCEPT ![table] = MaxScrollOf(table)]
    /\ lastOp' = "scroll_to_bottom"
    /\ UNCHANGED beside_scroll

\* t, a, m: App::set_sort_by, lines 390-394; set_sort_by of every table
\* resets its scroll_offset
SetSortBy ==
    /\ AtHandler /\ ~filter_widget.active
    /\ scroll_offset' = [w \in Tables |-> 0]
    /\ lastOp' = "set_sort_by"
    /\ UNCHANGED beside_scroll

ScrollNext ==
    \/ ScrollUpdateMonitor \/ ScrollUpdateMonitorFail \/ ResetMonitor
    \/ ScrollUp \/ ScrollDown \/ ScrollToTop \/ ScrollToBottom \/ SetSortBy
    \/ ClearAllFilters \/ Draw

SpecScroll == ScrollInit /\ [][ScrollNext]_vars

(***************************************************************************)
(* C29.  At every draw, the scroll_offset of each table is at most the     *)
(* number of rows its view returns, whatever scroll commands, filter       *)
(* changes, sort changes, ticks and resets came before.                    *)
(***************************************************************************)
C29_ScrollOffsetWithinRows ==
    [][lastOp' = "draw" =>
        \A table \in Tables : scroll_offset[table] <= Cardinality(RowsOf(table))]_vars

(***************************************************************************)
(* C30.  matches_connection returns false whenever the filter has a        *)
(* process-name criterion and the connection comes without process name,   *)
(* whatever the other criteria are and whether they match or not.          *)
(***************************************************************************)
C30_NameCriterionNeedsAName ==
    (/\ IsMatchCall
     /\ IsSome(Unwrap(returned).filter.process_name)
     /\ Unwrap(returned).process_name = None)
    => ~Unwrap(returned).result

\* a call without process name on a filter whose name criterion is the
\* empty string, contained in every name, and whose other three criteria
\* match the connection: false all the same
C30_Witness ==
    /\ IsMatchCall
    /\ AllFourSet(Unwrap(returned).filter)
    /\ Unwrap(returned).filter.process_name = Some("")
    /\ Unwrap(returned).process_name = None
    /\ matches_connection([Unwrap(returned).filter EXCEPT !.process_name = None],
                          Unwrap(returned).conn, None)
    /\ ~Unwrap(returned).result

(***************************************************************************)
(* C31.  On a filter with the remote-host criterion alone, a connection    *)
(* with a resolved hostname matches exactly when the substring is in the   *)
(* hostname or in the text of the remote address, and a connection without *)
(* hostname exactly when the substring is in the text of the address.      *)
(***************************************************************************)
HostOnlyCall ==
    /\ IsMatchCall
    /\ IsSome(Unwrap(returned).filter.remote_host)
    /\ Unwrap(returned).filter = OnlyRemoteHost(Unwrap(returned).filter)

C31_HostCriterionHostnameOrAddress ==
    HostOnlyCall =>
        LET call == Unwrap(returned)
            sub  == Unwrap(call.filter.remote_host)
        IN  call.result =
                IF IsSome(call.conn.remote_hostname)
                THEN \/ Contains(Unwrap(call.conn.remote_hostname), sub)
                     \/ Contains(call.conn.remote_addr, sub)
                ELSE Contains(call.conn.remote_addr, sub)

\* a host-only call that passed through the address although the resolved
\* hostname does not contain the substring
C31_Witness ==
    /\ HostOnlyCall
    /\ IsSome(Unwrap(returned).conn.remote_hostname)
    /\ ~Contains(Unwrap(Unwrap(returned).conn.remote_hostname),
                 Unwrap(Unwrap(returned).filter.remote_host))
    /\ Contains(Unwrap(returned).conn.remote_addr,
                Unwrap(Unwrap(returned).filter.remote_host))
    /\ Unwrap(returned).result

(***************************************************************************)
(* The window specification: the registry under refresh() and reset() on   *)
(* process tables whose memory readings and names change, and the two      *)
(* history views called with start and end bounds.                         *)
(***************************************************************************)
WindowSnapshots == { <<Socket10>>, <<Socket10, Socket20>> }

\* sysinfo rows: pid 10 changes its memory reading and, after an exec, its
\* name; pid 20 stays as it is
MemoryRows ==
    { [name |-> "curl", exe |-> Some("/usr/bin/curl"), memory |-> 2, status |-> "Run"],
      [name |-> "curl", exe |-> Some("/usr/bin/curl"), memory |-> 1, status |-> "Run"],
      [name |-> "wget", exe |-> None, memory |-> 3, status |-> "Run"] }
MemoryTables ==
    { [p \in Pids |-> IF p = 10 THEN Some(row) ELSE ProcRow(p, 1, "Run")] : row \in MemoryRows }

\* <<start_time, end_time>> of a call: no bound, one bound, both, and a
\* window that is empty
Windows ==
    { <<None, None>>, <<Some(1), None>>, <<None, Some(2)>>, <<Some(1), Some(2)>>,
      <<Some(2), Some(1)>> }

WindowFilters ==
    { ConnectionFilterDefault,
      ConnectionFilter(Some(20), None, None, None),
      ConnectionFilter(Some(10), Some("sshd"), None, None),
      ConnectionFilter(None, Some("ur"), None, None) }

WindowsInit ==
    /\ system_info \in MemoryTables
    /\ last_refresh = 0
    /\ \/ /\ clock = 0
          /\ lastOp = "refresh"
          /\ \E sockets \in WindowSnapshots : NewWith(sockets)
       \/ NewRefreshFailed
    /\ CallerInit

\* the views read the registry and leave it as it is: the calls are made
\* on the registry a run of refresh() and reset() has left
WindowsRefresh ==
    /\ returned = None
    /\ clock < MaxTime
    /\ \E sockets \in WindowSnapshots, sys \in MemoryTables :
        RefreshWith(sockets, sys, clock + 1)

\* the call of a history view with bounds that ends the run: nothing but
\* the record of the call changes
WindowedCall(op, filter, start_time, end_time, result) ==
    /\ returned = None
    /\ returned' = Some([op |-> op, filter |-> filter, start_time |-> start_time,
                         end_time |-> end_time, result |-> result])
    /\ lastOp' = "view"
    /\ UNCHANGED <<connections, historical_connections, processes, system_info,
                   last_refresh, metrics, clock, socketsRead, lastKeys,
                   closeCount, polled, sampled>>
    /\ UNCHANGED app

WindowsRefreshFail == returned = None /\ clock < EarlyTime /\ RefreshFail

WindowsReset == returned = None /\ Reset

GetConnectionHistoryWindowed ==
    \E filter \in ViewFilters, w \in Windows :
        WindowedCall("get_connection_history_filtered", filter, w[1], w[2],
                     get_connection_history_filtered(filter, w[1], w[2]))

GetMemoryHistoryWindowed ==
    \E filter \in WindowFilters, w \in Windows :
        WindowedCall("get_memory_history_filtered", filter, w[1], w[2],
                     get_memory_history_filtered(filter, w[1], w[2]))

WindowsNext ==
    \/ WindowsRefresh \/ WindowsRefreshFail \/ WindowsReset
    \/ GetConnectionHistoryWindowed \/ GetMemoryHistoryWindowed

SpecWindows == WindowsInit /\ [][WindowsNext]_vars

\* view `op` has just been called: `returned` holds the call and the
\* registry is the one it read
IsCallOf(op) == lastOp = "view" /\ IsSome(returned) /\ Unwrap(returned).op = op

\* start <= t <= end, an absent bound not restricting
Within(t, start, end) ==
    /\ (start = None \/ Unwrap(start) <= t)
    /\ (end = None \/ t <= Unwrap(end))

(***************************************************************************)
(* C32.  get_connection_history_filtered(filter, start, end) returns one   *)
(* pair per entry t of sample_timestamps with start <= t <= end (an absent *)
(* bound does not restrict), in the order of sample_timestamps, and no     *)
(* other pair.                                                             *)
(***************************************************************************)
C32_HistoryOnePairPerPollInWindow ==
    IsCallOf("get_connection_history_filtered") =>
        LET call == Unwrap(returned)
            kept == SelectSeq(metrics.sample_timestamps,
                              LAMBDA t : Within(t, call.start_time, call.end_time))
        IN  /\ Len(call.result) = Len(kept)
            /\ \A i \in 1..Len(kept) : call.result[i][1] = kept[i]

\* a call whose window cuts off poll timestamps at both ends
C32_Witness ==
    /\ IsCallOf("get_connection_history_filtered")
    /\ Unwrap(returned).start_time = Some(1)
    /\ Unwrap(returned).end_time = Some(2)
    /\ Len(metrics.sample_timestamps) = MaxTime + 1
    /\ Len(Unwrap(returned).result) = 2

(***************************************************************************)
(* C33.  get_memory_history_filtered(filter, start, end) returns a series  *)
(* exactly for the pids the filter implies (the pid of the filter if it    *)
(* has one, whatever its name criterion; else the pids of the process      *)
(* records whose name contains the name criterion; else every pid with a   *)
(* memory series) whose series has a sample inside the window, and each    *)
(* returned series is the pid's series restricted to the window, in order. *)
(***************************************************************************)
ImpliedPids(filter) ==
    IF filter.pid # None THEN { Unwrap(filter.pid) }
    ELSE IF filter.process_name # None
    THEN { pid \in DOMAIN processes :
             /\ processes[pid].name # None
             /\ Contains(Unwrap(processes[pid].name), Unwrap(filter.process_name)) }
    ELSE DOMAIN metrics.memory_history

SeriesWithin(pid, start, end) ==
    SelectSeq(Get(metrics.memory_history, pid, << >>),
              LAMBDA sample : Within(sample[1], start, end))

C33_MemoryHistoryOfImpliedPids ==
    IsCallOf("get_memory_history_filtered") =>
        LET call == Unwrap(returned)
        IN  /\ DOMAIN call.result =
                    { pid \in ImpliedPids(call.filter) :
                        SeriesWithin(pid, call.start_time, call.end_time) # << >> }
            /\ \A pid \in DOMAIN call.result :
                    call.result[pid] = SeriesWithin(pid, call.start_time, call.end_time)

\* a call without pid and name on a registry where both pids have a memory
\* series: pid 20, without sample inside the window, is left out, and pid
\* 10 comes with a part of its series
C33_Witness ==
    /\ IsCallOf("get_memory_history_filtered")
    /\ Unwrap(returned).filter = ConnectionFilterDefault
    /\ DOMAIN metrics.memory_history = {10, 20}
    /\ DOMAIN Unwrap(returned).result = {10}
    /\ Len(Unwrap(returned).result[10]) < Len(metrics.memory_history[10])

\* a call by name on a registry where pid 10, renamed since, no longer
\* matches although it has samples inside the window
C33_WitnessName ==
    /\ IsCallOf("get_memory_history_filtered")
    /\ Unwrap(returned).filter = ConnectionFilter(None, Some("ur"), None, None)
    /\ processes[10].name = Some("wget")
    /\ SeriesWithin(10, Unwrap(returned).start_time, Unwrap(returned).end_time) # << >>
    /\ Unwrap(returned).result = EmptyMap

\* a call by pid with a name criterion the process does not satisfy, and a
\* window that drops some of the pid's samples and keeps others
C33_WitnessPid ==
    /\ IsCallOf("get_memory_history_filtered")
    /\ Unwrap(returned).filter = ConnectionFilter(Some(10), Some("sshd"), None, None)
    /\ 10 \in DOMAIN Unwrap(returned).result
    /\ Len(Unwrap(returned).result[10]) < Len(metrics.memory_history[10])

(***************************************************************************)
(* C36.  For every process record, max_memory_usage is the largest of the  *)
(* memory readings taken for that pid since the record was created (by     *)
(* new() or after the last reset()), it is at least current_memory_usage,  *)
(* which is the latest reading, and no step that keeps the record lowers   *)
(* it.                                                                     *)
(***************************************************************************)
ReadingsOf(pid) == { Get(sampled, pid, << >>)[i][2] : i \in DOMAIN Get(sampled, pid, << >>) }

C36_MaxMemoryIsRunningMax ==
    /\ [](\A pid \in DOMAIN processes :
            /\ ReadingsOf(pid) # {}
            /\ processes[pid].max_memory_usage \in ReadingsOf(pid)
            /\ \A reading \in ReadingsOf(pid) : reading <= processes[pid].max_memory_usage
            /\ processes[pid].current_memory_usage =
                    sampled[pid][Len(sampled[pid])][2]
            /\ processes[pid].current_memory_usage <= processes[pid].max_memory_usage)
    /\ [][\A pid \in DOMAIN processes \cap DOMAIN processes' :
            processes[pid].max_memory_usage <= processes'[pid].max_memory_usage]_vars

\* pid 10 was read at 2, then at 3, then at 1: the maximum is neither the
\* first nor the latest reading
C36_Witness ==
    /\ 10 \in DOMAIN processes
    /\ Len(sampled[10]) >= 3
    /\ sampled[10][1][2] = 2
    /\ processes[10].current_memory_usage = 1
    /\ processes[10].max_memory_usage = 3

(***************************************************************************)
(* The graph specification: the App ticking more often than the graph has  *)
(* points.  tick() is update_monitor() followed by the graph's update();   *)
(* lastOp tells which of the two comes next.                               *)
(***************************************************************************)
GraphFilters == { ConnectionFilterDefault, ConnectionFilter(Some(20), None, None, None) }

GraphInit ==
    /\ system_info \in RetentionTables
    /\ last_refresh = 0
    /\ clock = 0
    /\ lastOp = "new"
    /\ \E sockets \in RetentionSnapshots(0) : NewWith(sockets)
    /\ returned = None
    /\ \E initial_filter \in GraphFilters :
        AppNew(initial_filter, rebuild_history_data(<< >>, initial_filter))

\* update_monitor() has returned and the graph's update() of the same
\* tick() has not run yet
MidTick == lastOp \in {"refresh", "refresh_err"}

GraphUpdateMonitor ==
    /\ AtHandler /\ ~MidTick
    /\ clock < MaxTicks
    /\ \E sockets \in RetentionSnapshots(clock), sys \in RetentionTables :
        RefreshWith(sockets, sys, clock + 1)

GraphUpdateMonitorFail ==
    /\ AtHandler /\ ~MidTick
    /\ clock < EarlyTime
    /\ RefreshFail

\* ActiveConnectionsGraphWidget::update, sample_interval elapsed (lines
\* 108-121)
GraphSample ==
    /\ AtHandler /\ MidTick
    /\ history_data' =
            LastPoints(Append(history_data,
                              get_filtered_active_connections_len(widget_filter["graph"])),
                       GraphMaxPoints)
    /\ lastOp' = "graph_update"
    /\ UNCHANGED <<registry, clock, histories, returned, poisoned, guard, pending, filters,
                   popup, frame, running>>

\* ActiveConnectionsGraphWidget::update, sample_interval not elapsed
GraphSampleNotDue ==
    /\ AtHandler /\ MidTick
    /\ clock <= EarlyTime
    /\ lastOp' = "graph_update_not_due"
    /\ UNCHANGED <<registry, clock, histories, caller>>

\* the key 'c' while a filter is set, in the first ticks or once the
\* graph is full
GraphClearAllFilters ==
    /\ ~MidTick
    /\ current_filter # ConnectionFilterDefault
    /\ clock < EarlyTime \/ clock >= GraphMaxPoints
    /\ ClearAllFilters

GraphNext ==
    \/ GraphUpdateMonitor \/ GraphUpdateMonitorFail
    \/ GraphSample \/ GraphSampleNotDue \/ GraphClearAllFilters

SpecGraph == GraphInit /\ [][GraphNext]_vars

\* the counts of get_connection_history_filtered(filter, None, None)
HistoryCounts(filter) ==
    LET history == get_connection_history_filtered(filter, None, None)
    IN  [i \in 1..Len(history) |-> history[i][2]]

(***************************************************************************)
(* C34.  The graph's buffer never holds more than max_points values; an    *)
(* update() on a full buffer drops its oldest value and appends the new    *)
(* sample, and a set_filter() on a history of more than max_points polls   *)
(* keeps the most recent max_points counts.                                *)
(***************************************************************************)
C34_BufferBoundedOldestDropped ==
    /\ [](Len(history_data) <= GraphMaxPoints)
    /\ [][(lastOp' = "graph_update" /\ Len(history_data) = GraphMaxPoints) =>
            /\ Len(history_data') = GraphMaxPoints
            /\ SubSeq(history_data', 1, GraphMaxPoints - 1) = Tail(history_data)
            /\ history_data'[GraphMaxPoints] =
                    get_filtered_active_connections_len(widget_filter["graph"])]_vars
    /\ [][(lastOp' = "apply_filter" /\ Len(HistoryCounts(current_filter')) > GraphMaxPoints) =>
            \A i \in 1..GraphMaxPoints :
                history_data'[i] =
                    HistoryCounts(current_filter')[
                        Len(HistoryCounts(current_filter')) - GraphMaxPoints + i]]_vars

\* the buffer is full after more ticks than it has points, on a run that
\* sampled 2 connections in its first tick: the 2 is gone
C34_Witness ==
    /\ lastOp = "graph_update"
    /\ clock = MaxTicks
    /\ Len(polled) = clock + 1
    /\ current_filter = ConnectionFilterDefault
    /\ \E k \in DOMAIN connections : connections[k].pid = 20 /\ connections[k].first_seen = 1
    /\ Len(history_data) = GraphMaxPoints
    /\ \A i \in DOMAIN history_data : history_data[i] = 1

(***************************************************************************)
(* C35.  A step that changes the active filter, the registry lock not      *)
(* poisoned, leaves the registry as it is and makes the graph's buffer the *)
(* last max_points counts of the History view for the new filter: nothing  *)
(* of the buffer of the previous filter is kept.                           *)
(***************************************************************************)
C35_FilterChangeRebuildsBuffer ==
    [][(current_filter' # current_filter /\ ~poisoned) =>
            /\ UNCHANGED registry
            /\ widget_filter'["graph"] = current_filter'
            /\ history_data' = LastN(HistoryCounts(current_filter'), GraphMaxPoints)]_vars

\* the filter on pid 20 was cleared after more polls than the graph has
\* points: the buffer is full and holds the counts of all connections,
\* none of the zeros pid 20 had
C35_Witness ==
    /\ lastOp = "apply_filter"
    /\ current_filter = ConnectionFilterDefault
    /\ Len(metrics.sample_timestamps) > GraphMaxPoints
    /\ Len(history_data) = GraphMaxPoints
    /\ \A i \in DOMAIN history_data : history_data[i] >= 1

====
